---- MODULE Spec2Model ----
(***************************************************************************)
(* A model of the echttp core: the reactor of echttp_raw.c (connection     *)
(* slots, input buffer, inline output buffer, overflow queue, file         *)
(* transfer, idle deadlines) and the HTTP state machine of echttp.c        *)
(* (echttp_received, echttp_execute, echttp_send_content, the web client   *)
(* functions).                                                             *)
(*                                                                         *)
(* Data is counted in units: one unit is either a complete HTTP header     *)
(* block (request or status line, attribute lines and the terminating      *)
(* empty line) or one byte of content.  Every unit is a record             *)
(* [k, r, v, x, y]: k is the kind of unit, r the request it belongs to,    *)
(* and v, x, y depend on the kind (see Tok).                               *)
(***************************************************************************)
EXTENDS Integers, Sequences, FiniteSets, TLC

\* ------------------------------------------------------------------------
\* Bounds of the model.

NSlots == 2            \* size of the echttp_raw_io table (the fd limit)
ClientBufferSize == 6  \* units in one echttp_buffer (ECHTTP_CLIENT_BUFFER)
MaxFrame == 2          \* units written by one send() (ETH_MAX_FRAME)
Ttl == 1               \* echttp_raw_ttl, in seconds
MaxTime == 3           \* the clock stops advancing at MaxTime
MaxRequests == 2       \* requests a peer sends on one connection
MaxContent == 1        \* largest Content-Length a peer announces
MaxTransfer == 2       \* largest size given to echttp_transfer
MaxRoutes == 2         \* routes the application registers
MaxPath == 6           \* characters in the uri of a request
MaxChunk == 2          \* bytes in one chunk of a chunked content
MaxChunks == 2         \* chunks before the last chunk
PoolSize == 2          \* slots of the pool of application fds and sockets
MaxFd == 2             \* largest file descriptor the system hands out
MaxSymbol == 4         \* items of a catalog, the unused item 0 included (ECHTTP_MAX_SYMBOL)
MaxSets == 3           \* calls of echttp_catalog_set between two resets
MaxString == 3         \* bytes of a string given to the percent codec
MaxSize == 12          \* size of the buffer given to echttp_encoding_escape
MaxOpens == 2          \* client requests opened and not yet submitted
SortedLevels == 3      \* levels of buckets of a sorted list (8, one per byte of the key)
SortedRadix == 2       \* entries of a bucket (256, the values of a byte)
MaxKey == 5            \* largest key given to a sorted list
MaxItems == 3          \* references given to a sorted list
MaxSends == 3          \* calls of echttp_raw_send made on one connection
MaxBody == 3           \* largest content of a message given to an asynchronous callback
MaxUnits == 4          \* bytes SSL_read returns over the life of one TLS connection
TlsBufferSize == 6     \* units in one buffer of echttp_tls.c (ECHTTP_CLIENT_BUFFER)

\* ------------------------------------------------------------------------
\* Program constants.

ECHTTP_RAW_UNUSED == 0
ECHTTP_RAW_TCP == 1
ECHTTP_RAW_APP == 2
ECHTTP_RAW_LISTEN == 3

ECHTTP_STATE_IDLE == 0
ECHTTP_STATE_CONTENT == 1
ECHTTP_STATE_ERROR == 2

ECHTTP_TRANSFER_IDLE == 0
ECHTTP_TRANSFER_IN == 1
ECHTTP_TRANSFER_OUT == 2

ECHTTP_MATCH_EXACT == 1
ECHTTP_MATCH_PARENT == 2
ECHTTP_MATCH_ANY == 3

ECHTTP_HASH == 127

ECHTTP_TLS_IDLE == 0
ECHTTP_TLS_CONNECT == 1
ECHTTP_TLS_TRANSFER == 2

ECHTTP_RAW == 0
ECHTTP_TLS == 1
ECHTTP_MAX_ROUTES == 512

Slots == 0 .. (NSlots - 1)

Min(a, b) == IF a < b THEN a ELSE b
Max(a, b) == IF a > b THEN a ELSE b

\* A unit of data.  Kinds received by the server: "H" a request header block
\* (v = Content-Length, x = the route the uri resolves to, -1 when none) and
\* "B" a content byte.  Kinds sent by the server: "S" status line (v = the
\* status), "K" the keep-alive line, "C" the Content-Length line (v = the
\* value), "A" an attribute line, "N" the empty line, "D" a byte of the
\* handler's returned string, "Q" a byte queued with echttp_content_queue,
\* "F" a byte read from a transfer file (v = the file descriptor).
Tok(k, r, v, x) == [k |-> k, r |-> r, v |-> v, x |-> x, y |-> 0]

\* The header block of request r: its Content-Length, the route its uri
\* resolves to (-1: none) and whether it carries "Connection: keep-alive".
RequestHeader(r, length, route, keep) ==
    [k |-> "H", r |-> r, v |-> length, x |-> route, y |-> keep]

Rep(n, t) == [i \in 1 .. n |-> t]

\* ------------------------------------------------------------------------
\* echttp_raw.c: buffers.
\* The live part of an echttp_buffer is data[start .. end-1]; the model keeps
\* the live units in data and the offset start, so that end = start + Len(data).

EmptyBuffer == [data |-> <<>>, start |-> 0]
BufferEnd(b) == b.start + Len(b.data)

echttp_raw_consume(buffer, length) ==
    LET moved == IF length > 0
                 THEN [data  |-> SubSeq(buffer.data, length + 1, Len(buffer.data)),
                       start |-> buffer.start + length]
                 ELSE buffer
    IN  IF Len(moved.data) = 0 THEN EmptyBuffer ELSE moved

NoTransfer == [fd |-> -1, size |-> 0]

RawUnused ==
    [fd |-> -1, use |-> ECHTTP_RAW_UNUSED, premium |-> 0, deadline |-> 0,
     in |-> EmptyBuffer, out |-> EmptyBuffer, next |-> <<>>,
     transfer |-> NoTransfer]

\* The slot echttp_raw_io_new hands out and its initial content.
echttp_raw_io_free(io) ==
    IF \E i \in Slots : io[i].use = ECHTTP_RAW_UNUSED
    THEN CHOOSE i \in Slots : /\ io[i].use = ECHTTP_RAW_UNUSED
                              /\ \A j \in Slots : j < i => io[j].use # ECHTTP_RAW_UNUSED
    ELSE -1

echttp_raw_io_new(use, fd) ==
    [fd |-> fd, use |-> use, premium |-> 0, deadline |-> 0,
     in |-> EmptyBuffer, out |-> EmptyBuffer, next |-> <<>>,
     transfer |-> NoTransfer]

\* echttp_raw_extendlife without the test for a null deadline.
ExtendlifeUnguarded(raw, time) ==
    IF raw.deadline < time + Ttl
    THEN [raw EXCEPT !.deadline = time + Ttl]
    ELSE raw

echttp_raw_extendlife(raw, time) ==
    IF raw.deadline = 0 THEN raw
    ELSE IF raw.deadline < time + Ttl
         THEN [raw EXCEPT !.deadline = time + Ttl]
         ELSE raw

echttp_raw_invalid(raw) ==
    \/ raw.use # ECHTTP_RAW_TCP
    \/ raw.fd < 0

\* The overflow queue: append data to the last buffer, allocating buffers on
\* demand (the while loop of echttp_raw_send).
RECURSIVE QueueAppend(_, _)
QueueAppend(queue, data) ==
    IF Len(data) = 0 THEN queue
    ELSE LET last  == IF Len(queue) > 0 THEN queue[Len(queue)] ELSE EmptyBuffer
             empty == IF Len(queue) > 0 THEN ClientBufferSize - BufferEnd(last) ELSE 0
         IN  IF empty <= 0
             THEN LET copy == Min(Len(data), ClientBufferSize)
                  IN  QueueAppend(Append(queue, [data  |-> SubSeq(data, 1, copy),
                                                 start |-> 0]),
                                  SubSeq(data, copy + 1, Len(data)))
             ELSE LET copy == Min(Len(data), empty)
                  IN  QueueAppend([queue EXCEPT ![Len(queue)].data =
                                       last.data \o SubSeq(data, 1, copy)],
                                  SubSeq(data, copy + 1, Len(data)))

echttp_raw_send(raw, data) ==
    IF echttp_raw_invalid(raw) THEN raw
    ELSE LET empty == ClientBufferSize - BufferEnd(raw.out)
             copy  == IF empty > 0 THEN Min(Len(data), empty) ELSE 0
             rest  == SubSeq(data, copy + 1, Len(data))
         IN  [raw EXCEPT !.out.data = raw.out.data \o SubSeq(data, 1, copy),
                         !.next = QueueAppend(raw.next, rest)]

echttp_raw_transfer(raw, fd, length) ==
    IF echttp_raw_invalid(raw) THEN raw
    ELSE [raw EXCEPT !.transfer = [fd |-> fd, size |-> length]]

\* What the loop tests to decide that a slot has something to write.
RawPendingOutput(raw) ==
    \/ BufferEnd(raw.out) > 0
    \/ Len(raw.next) > 0
    \/ raw.transfer.size > 0

\* ------------------------------------------------------------------------
\* The state of one slot as the operators below see it: raw is the slot's
\* echttp_raw_io entry, ctx its echttp_context entry, gh the history kept for
\* the properties (never read by the program):
\*   wire    the units written to the socket since the pipeline was last idle
\*   calls   the application callbacks made for this connection, in order
\*   pushed  whether a send or a receive moved the deadline
\*   reason  the reason given to echttp_raw_close_client ("" while open)
\*   unsent  whether output was left to write when the slot was closed
\*   active  the time of the last successful send or receive (or creation)
\*   closed  the transfer file descriptors closed so far
\*   repeat  for each call of echttp_transfer made while a transfer was
\*           already scheduled: the context's transfer before and after
\*   emitting the number of messages put in the pipeline since it was idle
\*   expect  the units of these messages, in the order of the calls that
\*           submitted them (echttp_send, then the transfer file's bytes)
\*   segments the number of successful recv() calls (2 for two or more)
\*   whole   the requests of the first segment when it held only complete
\*           requests
\*   submitted  whether echttp_submit was called with a response callback
\*   answers    the calls of the response callback: the status and length it
\*              was given, and what it did (see ResponseCallback)
\*   headers    the attributes the application set on the client request
\*              this one derives from
\*   hops       the number of redirections followed to make this request
\*   full       whether echttp_raw_receive found the input buffer unable to
\*              take one more byte
\*   notified   whether the receiver was called with the length -1
\*   stored     the units written to the file of an incoming transfer
\*   handed     the file descriptors echttp_transfer took, in order
\*   lines      the status lines given to echttp_send on this connection

NoHeader == Tok("", 0, 0, 0)

NoContextTransfer == [state |-> ECHTTP_TRANSFER_IDLE, fd |-> -1, size |-> 0]

ContextInit ==
    [mode |-> 0, state |-> ECHTTP_STATE_IDLE, protected |-> 0, route |-> 0,
     contentlength |-> 0, contentlengthout |-> 0, uri |-> 0,
     in |-> NoHeader, out |-> <<>>, status |-> 0,
     next |-> <<>>, queued |-> 0, transfer |-> NoContextTransfer,
     response |-> 0, asynchronous |-> 0, origin |-> 0]

GhostInit ==
    [wire |-> <<>>, calls |-> <<>>, reason |-> "", unsent |-> FALSE, active |-> 0,
     pushed |-> FALSE,
     closed |-> <<>>, repeat |-> <<>>, emitting |-> 0, expect |-> <<>>,
     segments |-> 0, whole |-> <<>>, submitted |-> FALSE, answers |-> <<>>,
     headers |-> <<>>, hops |-> 0, full |-> FALSE, notified |-> FALSE,
     stored |-> <<>>, handed |-> <<>>, lines |-> <<>>]

\* echttp_newclient: what the acceptor resets in the context of a new client.
echttp_newclient(ctx) ==
    [ctx EXCEPT !.state = ECHTTP_STATE_IDLE, !.mode = 0,
                !.transfer = NoContextTransfer,
                !.response = 0, !.asynchronous = 0, !.origin = 0,
                !.route = 0, !.in = NoHeader, !.out = <<>>, !.queued = 0]

\* echttp_terminate (plain transport): the queued content is released.
echttp_terminate(ctx) ==
    [ctx EXCEPT !.next = <<>>, !.queued = 0]

echttp_raw_close_client(S, reason) ==
    IF S.raw.fd < 0 THEN S
    ELSE LET tcp  == S.raw.use = ECHTTP_RAW_TCP
             term == S.raw.use \in {ECHTTP_RAW_TCP, ECHTTP_RAW_APP}
         IN  [raw |-> RawUnused,
              ctx |-> IF term THEN echttp_terminate(S.ctx) ELSE S.ctx,
              gh  |-> [S.gh EXCEPT
                          !.reason = reason,
                          !.unsent = tcp /\ RawPendingOutput(S.raw),
                          !.closed = IF tcp /\ S.raw.transfer.size > 0
                                     THEN Append(@, S.raw.transfer.fd)
                                     ELSE @]]

\* ------------------------------------------------------------------------
\* echttp_raw_transmit.  The buffer the next send() reads from: the inline
\* buffer when it holds data, else the head of the overflow queue.

TransmitFromQueue(raw) == Len(raw.out.data) = 0 /\ Len(raw.next) > 0

\* A transmit that serves the file transfer before the buffers.
TransmitFileFirst(raw) ==
    IF raw.transfer.size > 0 THEN EmptyBuffer
    ELSE IF Len(raw.out.data) > 0 THEN raw.out
    ELSE IF Len(raw.next) > 0 THEN raw.next[1]
    ELSE EmptyBuffer

TransmitBuffer(raw) ==
    IF Len(raw.out.data) > 0 THEN raw.out
    ELSE IF Len(raw.next) > 0 THEN raw.next[1]
    ELSE EmptyBuffer

\* The length offered to send(), or to sendfile() when no buffer holds data.
TransmitLength(raw) ==
    IF Len(TransmitBuffer(raw).data) > 0
    THEN Min(Len(TransmitBuffer(raw).data), MaxFrame)
    ELSE IF raw.transfer.size > 0 THEN Min(raw.transfer.size, MaxFrame)
    ELSE 0

FileUnit(fd) == Tok("F", fd \div 10, fd, 0)

\* result: the value returned by send() or sendfile(): the count written,
\* 0 for a transient error (EAGAIN), -1 for any other error.
echttp_raw_transmit(S, result, time) ==
    LET raw    == S.raw
        buffer == TransmitBuffer(raw)
    IN  IF raw.use # ECHTTP_RAW_TCP THEN S
        ELSE IF Len(buffer.data) > 0
        THEN IF result < 0 THEN echttp_raw_close_client(S, "send error")
             ELSE IF result = 0 THEN S
             ELSE LET left  == echttp_raw_consume(buffer, result)
                      alive == echttp_raw_extendlife(raw, time)
                      after == IF TransmitFromQueue(raw)
                               THEN IF Len(left.data) = 0
                                    THEN [alive EXCEPT !.next = Tail(@)]
                                    ELSE [alive EXCEPT !.next[1] = left]
                               ELSE [alive EXCEPT !.out = left]
                  IN  [S EXCEPT !.raw = after,
                                !.gh.wire = @ \o SubSeq(buffer.data, 1, result),
                                !.gh.active = time,
                                !.gh.pushed = @ \/ alive.deadline # raw.deadline]
        ELSE IF raw.transfer.size > 0
        THEN IF result < 0 THEN echttp_raw_close_client(S, "sendfile error")
             ELSE IF result = 0 THEN S
             ELSE LET alive == echttp_raw_extendlife(raw, time)
                      size  == raw.transfer.size - result
                  IN  [S EXCEPT
                          !.raw = IF size <= 0
                                  THEN [alive EXCEPT !.transfer = NoTransfer]
                                  ELSE [alive EXCEPT !.transfer.size = size],
                          !.gh.wire = @ \o Rep(result, FileUnit(raw.transfer.fd)),
                          !.gh.active = time,
                          !.gh.pushed = @ \/ alive.deadline # raw.deadline,
                          !.gh.closed = IF size <= 0
                                        THEN Append(@, raw.transfer.fd) ELSE @]
        ELSE S

\* ------------------------------------------------------------------------
\* echttp.c: the output of one message.

\* echttp_send called once for each item of list, in order.
RECURSIVE SendAll(_, _)
SendAll(raw, list) ==
    IF Len(list) = 0 THEN raw
    ELSE SendAll(echttp_raw_send(raw, list[1]), Tail(list))

RECURSIVE Flatten(_)
Flatten(list) ==
    IF Len(list) = 0 THEN <<>> ELSE list[1] \o Flatten(Tail(list))

\* The pipeline is idle when nothing is left to write.  A message submitted
\* to an idle pipeline starts a new history; a message submitted to a busy
\* one is added to the history in progress.
Submit(S, parts, fd, size) ==
    LET idle  == ~RawPendingOutput(S.raw)
        units == Flatten(parts) \o Rep(size, FileUnit(fd))
        sent  == SendAll(S.raw, parts)
    IN  [S EXCEPT
            !.raw = IF size > 0 THEN echttp_raw_transfer(sent, fd, size) ELSE sent,
            !.gh.wire = IF idle THEN <<>> ELSE @,
            !.gh.lines = @ \o SelectSeq(units, LAMBDA u : u.k = "S"),
            !.gh.expect = IF idle THEN units ELSE @ \o units,
            !.gh.emitting = IF idle THEN 1 ELSE @ + 1]

ContentLengthValue(ctx, length) ==
    length + ctx.queued
    + (IF ctx.transfer.size > 0 /\ ctx.transfer.state = ECHTTP_TRANSFER_OUT
       THEN ctx.transfer.size ELSE 0)

\* echttp_send_content, after the lines in head were sent by the caller: the
\* Content-Length line, the attributes, the empty line, the data, the queued
\* content, and then the transfer handed to echttp_raw.
echttp_send_content(S, r, head, data) ==
    LET ctx   == S.ctx
        size  == IF ctx.transfer.size > 0 /\ ctx.transfer.state = ECHTTP_TRANSFER_OUT
                 THEN ctx.transfer.size ELSE 0
        parts == head
                 \o << <<Tok("C", r, ContentLengthValue(ctx, Len(data)), 0)>> >>
                 \o [i \in 1 .. Len(ctx.out) |-> <<Tok("A", r, 0, ctx.out[i])>>]
                 \o << <<Tok("N", r, 0, 0)>> >>
                 \o (IF Len(data) > 0 THEN <<data>> ELSE <<>>)
                 \o ctx.next
        sent  == Submit(S, parts, ctx.transfer.fd, size)
    IN  [sent EXCEPT !.ctx.next = <<>>, !.ctx.queued = 0,
                     !.ctx.transfer = IF size > 0 THEN NoContextTransfer ELSE @]

echttp_transfer_cancel(S) ==
    [S EXCEPT !.ctx.transfer = NoContextTransfer,
              !.gh.closed = IF S.ctx.transfer.fd >= 0
                               /\ S.ctx.transfer.state # ECHTTP_TRANSFER_IDLE
                            THEN Append(@, S.ctx.transfer.fd) ELSE @]

\* One buffer holds the status line, "Content-Length: 0" and the empty line.
echttp_send_error(S, r, status) ==
    echttp_transfer_cancel(
        Submit(S, << <<Tok("S", r, status, 0), Tok("C", r, 0, 0),
                       Tok("N", r, 0, 0)>> >>, -1, 0))

\* echttp_has_error taking every status that is not 2xx for an error.
HasErrorNot2xx(ctx) == (ctx.status \div 100) # 2

echttp_has_error(ctx) == (ctx.status \div 100) > 3

\* ------------------------------------------------------------------------
\* The application.  A plan is what the callbacks of one request do:
\*   gprotect, rprotect  the status the global and the route protect
\*                       callbacks leave (200: they accept the request)
\*   transfers           the sizes given to successive echttp_transfer calls
\*   queue               the lengths given to echttp_content_queue calls
\*   status              the status the handler leaves (echttp_error; 307:
\*                       echttp_redirect, which also sets Location)
\*   body                the length of the string the handler returns
\*   async               what the asynchronous callback of the route does:
\*                       "transfer" (echttp_transfer for the content still
\*                       to come), "redirect" (echttp_redirect), "none"
\*   write               the most write() takes on the file of an incoming
\*                       transfer: 0 (error), WriteAll (all that is asked)
\* Route 1 is a plain route, route 2 has an asynchronous callback
\* (echttp_asynchronous_route), route 3 is a plain route whose callbacks
\* redirect or fail.

WriteAll == ClientBufferSize

TransferPlans == {<<>>, <<MaxTransfer, 1>>}

HandlerPlans ==
    [gprotect : {200}, rprotect : {200}, transfers : {<<MaxTransfer, 1>>},
     queue : {<<1>>}, status : {200}, body : {1},
     async : {"none"}, write : {WriteAll}]
    \cup [gprotect : {200}, rprotect : {200}, transfers : {<<>>},
          queue : {<<>>}, status : {200, 500}, body : {0},
          async : {"none"}, write : {WriteAll}]
    \cup [gprotect : {200}, rprotect : {204}, transfers : {<<>>},
          queue : {<<>>}, status : {200}, body : {0},
          async : {"none"}, write : {WriteAll}]
    \cup [gprotect : {403}, rprotect : {200}, transfers : {<<>>},
          queue : {<<>>}, status : {200}, body : {0},
          async : {"none"}, write : {WriteAll}]

\* The callbacks of the asynchronous route.
AsynchronousPlans ==
    [gprotect : {200, 403}, rprotect : {200}, transfers : {<<>>},
     queue : {<<>>}, status : {200}, body : {1},
     async : {"none", "transfer", "redirect"}, write : {0, WriteAll}]

\* The callbacks of the route that redirects or fails: the protect callback
\* redirects (301), or the handler schedules a transfer and then redirects
\* (307) or reports an error (404).
StatusPlans ==
    [gprotect : {301}, rprotect : {200}, transfers : {<<>>},
     queue : {<<>>}, status : {200}, body : {1},
     async : {"none"}, write : {WriteAll}]
    \cup [gprotect : {200}, rprotect : {200}, transfers : {<<MaxTransfer>>},
          queue : {<<>>}, status : {307, 404}, body : {1},
          async : {"none"}, write : {WriteAll}]

\* echttp_routing.item[route].asynchronous is set.
RouteAsynchronous(route) == route = 2

\* The callback cb is called for request r and leaves status; busy tells
\* whether the slot had output left to write at the time of the call.
Call(S, cb, r, status) ==
    [S EXCEPT !.gh.calls =
        Append(@, [cb |-> cb, r |-> r, status |-> status,
                   busy |-> RawPendingOutput(S.raw)])]

\* The direction echttp_transfer gives a transfer: incoming when the content
\* of the request is awaited and the request is asynchronous.
TransferDirection(ctx) ==
    IF /\ ctx.state = ECHTTP_STATE_CONTENT
       /\ \/ ctx.asynchronous # 0
          \/ ctx.route # 0 /\ RouteAsynchronous(ctx.route)
    THEN ECHTTP_TRANSFER_IN
    ELSE ECHTTP_TRANSFER_OUT

\* echttp_transfer without the test for a transfer already scheduled.
TransferOverwrite(S, fd, size) ==
    [S EXCEPT !.ctx.transfer =
        [state |-> TransferDirection(S.ctx), fd |-> fd, size |-> size]]

echttp_transfer(S, fd, size) ==
    IF S.ctx.transfer.state # ECHTTP_TRANSFER_IDLE THEN S
    ELSE [S EXCEPT !.ctx.transfer =
             [state |-> TransferDirection(S.ctx), fd |-> fd, size |-> size],
                   !.gh.handed = Append(@, fd)]

\* A call of echttp_transfer by the handler; a call made while a transfer is
\* scheduled is recorded with the transfer before and after.
TransferCall(S, fd, size) ==
    IF S.ctx.transfer.state # ECHTTP_TRANSFER_IDLE
    THEN [echttp_transfer(S, fd, size) EXCEPT !.gh.repeat =
             Append(@, [before |-> S.ctx.transfer,
                        after  |-> echttp_transfer(S, fd, size).ctx.transfer])]
    ELSE echttp_transfer(S, fd, size)

RECURSIVE TransferCalls(_, _, _, _)
TransferCalls(S, r, sizes, index) ==
    IF index > Len(sizes) THEN S
    ELSE TransferCalls(TransferCall(S, 10 * r + index, sizes[index]),
                       r, sizes, index + 1)

echttp_content_queue(S, r, length) ==
    [S EXCEPT !.ctx.next = Append(@, Rep(length, Tok("Q", r, 0, 0))),
              !.ctx.queued = @ + length]

RECURSIVE QueueCalls(_, _, _)
QueueCalls(S, r, lengths) ==
    IF Len(lengths) = 0 THEN S
    ELSE QueueCalls(echttp_content_queue(S, r, lengths[1]), r, Tail(lengths))

\* echttp_catalog_set on the out attributes: the names are numbers here,
\* 1 is Date and 4 is Location.
AttributeSet(out, name) ==
    IF name \in {out[i] : i \in 1 .. Len(out)} THEN out ELSE Append(out, name)

\* echttp_error, and echttp_redirect for the status 307.
StatusSet(ctx, status) ==
    IF status = 200 THEN ctx
    ELSE IF status = 307
    THEN [ctx EXCEPT !.status = 307, !.out = AttributeSet(@, 4)]
    ELSE [ctx EXCEPT !.status = status]

\* The route handler: its calls, then echttp_date sets the Date attribute.
Handler(S, r, plan) ==
    [QueueCalls(TransferCalls(Call(S, "handler", r, plan.status),
                              r, plan.transfers, 1),
                r, plan.queue)
        EXCEPT !.ctx = [StatusSet(@, plan.status) EXCEPT
                           !.out = AttributeSet(@, 1)]]

\* ------------------------------------------------------------------------
\* echttp.c: the execution of one request.

\* A protect callback was called and left status (200: it did not object).
Protected(S, cb, r, status) ==
    [Call(S, cb, r, status) EXCEPT
        !.ctx.status = IF status # 200 THEN status ELSE @]

\* The end of echttp_execute_protect, after the callbacks.
ProtectVerdict(S, r) ==
    IF S.ctx.status = 204
    THEN [S |-> echttp_send_error(S, r, 204), pass |-> FALSE]
    ELSE IF echttp_has_error(S.ctx)
    THEN [S |-> echttp_send_error(S, r, S.ctx.status), pass |-> FALSE]
    ELSE [S |-> [S EXCEPT !.ctx.protected = 1], pass |-> TRUE]

\* The route protect callback is called when the global one did not object.
RouteProtect(S, r, plan) ==
    ProtectVerdict(IF S.ctx.status = 200
                   THEN Protected(S, "route protect", r, plan.rprotect)
                   ELSE S, r)

\* Returns the slot and whether the request passed.
echttp_execute_protect(S, r, plan) ==
    IF S.ctx.protected = 1 THEN [S |-> S, pass |-> TRUE]
    ELSE RouteProtect(
             Protected([S EXCEPT !.ctx.status = 200, !.ctx.out = <<>>,
                                 !.ctx.transfer = NoContextTransfer],
                       "protect", r, plan.gprotect),
             r, plan)

\* The end of echttp_execute, after the handler returned.
ExecuteResponse(S, r, plan, keep) ==
    IF echttp_has_error(S.ctx)
    THEN echttp_send_error(S, r, S.ctx.status)
    ELSE echttp_send_content(
             S, r,
             << <<Tok("S", r, S.ctx.status, 0)>> >>
             \o (IF keep THEN << <<Tok("K", r, 0, 0)>> >> ELSE <<>>),
             Rep(plan.body, Tok("D", r, 0, 0)))

ExecuteProtected(protected, r, plan, keep) ==
    IF ~protected.pass THEN protected.S
    ELSE ExecuteResponse(
             Handler([protected.S EXCEPT !.ctx.contentlengthout = 0], r, plan),
             r, plan, keep)

echttp_execute(S, r, plan) ==
    ExecuteProtected(echttp_execute_protect(S, r, plan), r, plan,
                     S.ctx.in.y = 1)

\* The asynchronous callback of the route, called with the content received
\* so far (available of contentlength).
AsynchronousCallback(S, r, plan, available) ==
    IF plan.async = "transfer"
    THEN echttp_transfer(Call(S, "asynchronous", r, 200),
                         10 * r + 9, S.ctx.contentlength - available)
    ELSE IF plan.async = "redirect"
    THEN [Call(S, "asynchronous", r, 307) EXCEPT !.ctx = StatusSet(@, 307)]
    ELSE Call(S, "asynchronous", r, 200)

\* The end of echttp_execute_async: a redirection is answered at once and
\* the rest of the connection's data ignored.
AsynchronousRedirect(S, r) ==
    IF S.ctx.status \div 100 = 3
    THEN [echttp_send_content(S, r, << <<Tok("S", r, S.ctx.status, 0)>> >>, <<>>)
             EXCEPT !.ctx.state = ECHTTP_STATE_ERROR]
    ELSE S

AsynchronousVerdict(S, r) ==
    IF echttp_has_error(S.ctx) THEN echttp_send_error(S, r, S.ctx.status)
    ELSE S

AsynchronousProtected(protected, r, plan, available) ==
    IF ~protected.pass THEN protected.S
    ELSE AsynchronousVerdict(
             AsynchronousRedirect(
                 AsynchronousCallback(protected.S, r, plan, available), r), r)

echttp_execute_async(S, r, plan, available) ==
    AsynchronousProtected(echttp_execute_protect(S, r, plan), r, plan, available)

\* ------------------------------------------------------------------------
\* echttp.c: the web client.

NoSpawn == [origin |-> 0, out |-> <<>>, response |-> 0]

\* echttp_redirected, up to the call of echttp_client: the value returned
\* when no new request is made, 0 when the redirection is followed.  free is
\* the slot echttp_raw_manage would return (-1: none).
echttp_redirected(ctx, free) ==
    IF ctx.status \notin {301, 302, 303, 307, 308} THEN ctx.status
    ELSE IF ctx.in.y # 1 THEN 500
    ELSE IF free < 0 THEN 500
    ELSE 0

\* The response callback.  Callback 1 takes the response as it is.  Callback
\* 2 calls echttp_redirected first and, when that returns 0, submits the
\* request again: spawn describes that new request (its attributes are the
\* ones echttp_copy_attributes copies from this context).
CallbackResult(S, length, result) ==
    [S |-> [S EXCEPT !.gh.answers =
                Append(@, [status |-> S.ctx.status, length |-> length,
                           result |-> result])],
     spawn |-> IF result = 0
               THEN [origin |-> S.ctx.origin, out |-> S.ctx.out,
                     response |-> S.ctx.response]
               ELSE NoSpawn]

ResponseCallback(S, length, free) ==
    CallbackResult(S, length,
                   IF S.ctx.response = 2 THEN echttp_redirected(S.ctx, free)
                   ELSE S.ctx.status)

\* The end of echttp_respond, after the callback returned.
Responded(called) ==
    [called EXCEPT !.S.ctx.response = 0, !.S.ctx.origin = 0,
                   !.S.ctx.in = NoHeader]

echttp_respond(S, length, free) ==
    Responded(IF S.ctx.response # 0
              THEN ResponseCallback(S, length, free)
              ELSE [S |-> S, spawn |-> NoSpawn])

\* echttp_respond_async: the asynchronous callback of a client request is
\* called with the content received so far (available of contentlength); it
\* schedules a transfer for the rest or does nothing.
echttp_respond_async(S, r, plan, available) ==
    IF S.ctx.asynchronous = 0 THEN S
    ELSE [(IF plan.async = "transfer"
           THEN echttp_transfer(Call(S, "asynchronous response", r, S.ctx.status),
                                10 * r + 9, S.ctx.contentlength - available)
           ELSE Call(S, "asynchronous response", r, S.ctx.status))
             EXCEPT !.ctx.asynchronous = 0]

\* echttp_received with length < 0: the connection failed.
echttp_received_error(S, free) ==
    IF S.ctx.response # 0
    THEN echttp_respond([echttp_transfer_cancel(S) EXCEPT
                            !.ctx.status = 505, !.gh.notified = TRUE],
                        0, free)
    ELSE [S |-> [echttp_transfer_cancel(S) EXCEPT !.gh.notified = TRUE],
          spawn |-> NoSpawn]

\* ------------------------------------------------------------------------
\* echttp_received.  The operators return the slot, the count of units
\* reported as consumed and the client request the response callback made.

Returned(S, consumed) == [S |-> S, consumed |-> consumed, spawn |-> NoSpawn]

\* The position of the first header block after the units already passed.
HeaderFound(data, pos) == \E i \in (pos + 1) .. Len(data) : data[i].k = "H"

HeaderAt(data, pos) ==
    CHOOSE i \in (pos + 1) .. Len(data) :
        /\ data[i].k = "H"
        /\ \A j \in (pos + 1) .. (i - 1) : data[j].k # "H"

ResponseStatus(h) == IF h.x < 100 \/ h.x >= 600 THEN 500 ELSE h.x

\* The connection of a client request is closed once the response callback
\* was called.
Concluded(answered, reason) ==
    [S |-> echttp_raw_close_client(answered.S, reason),
     consumed |-> 0, spawn |-> answered.spawn]

\* The header block h of a request was decoded: the content is waited for,
\* or the request is executed.  available is what follows the header block,
\* consumed counts the units up to and including it.
\* The asynchronous endpoint was given the start of the content: what
\* echttp_received returns then.
ReceivedAsynchronous(S, available, consumed) ==
    Returned(S, IF S.ctx.state = ECHTTP_STATE_ERROR THEN Len(S.raw.in.data)
                ELSE IF S.ctx.transfer.state = ECHTTP_TRANSFER_IN
                THEN consumed + available
                ELSE consumed)

\* The content announced is not all there: the request waits for it, after
\* the asynchronous callback of its route, if any, was called.
ReceivedPartial(S, r, available, consumed, plan) ==
    IF S.ctx.route > 0 /\ RouteAsynchronous(S.ctx.route)
    THEN ReceivedAsynchronous(echttp_execute_async(S, r, plan, available),
                              available, consumed)
    ELSE Returned(S, consumed)

\* The request branch that waits for the content whenever no more than the
\* content announced is there, an empty content included.
ReceivedRequestWaits(S, h, available, consumed, plan) ==
    IF h.x <= 0
    THEN Returned(echttp_send_error([S EXCEPT !.ctx.uri = h.r], h.r, 404),
                  Len(S.raw.in.data))
    ELSE IF h.v >= available
    THEN ReceivedPartial(
             [S EXCEPT !.ctx.uri = h.r, !.ctx.route = h.x, !.ctx.in = h,
                       !.ctx.protected = 0, !.ctx.contentlength = h.v,
                       !.ctx.state = ECHTTP_STATE_CONTENT],
             h.r, available, consumed, plan)
    ELSE Returned(echttp_execute(
                      [S EXCEPT !.ctx.uri = h.r, !.ctx.route = h.x, !.ctx.in = h,
                                !.ctx.protected = 0, !.ctx.contentlength = h.v],
                      h.r, plan),
                  consumed + h.v)

ReceivedRequest(S, h, available, consumed, plan) ==
    IF h.x <= 0
    THEN Returned(echttp_send_error([S EXCEPT !.ctx.uri = h.r], h.r, 404),
                  Len(S.raw.in.data))
    ELSE IF h.v > available
    THEN ReceivedPartial(
             [S EXCEPT !.ctx.uri = h.r, !.ctx.route = h.x, !.ctx.in = h,
                       !.ctx.protected = 0, !.ctx.contentlength = h.v,
                       !.ctx.state = ECHTTP_STATE_CONTENT],
             h.r, available, consumed, plan)
    ELSE Returned(echttp_execute(
                      [S EXCEPT !.ctx.uri = h.r, !.ctx.route = h.x, !.ctx.in = h,
                                !.ctx.protected = 0, !.ctx.contentlength = h.v],
                      h.r, plan),
                  consumed + h.v)

\* The header block h of a response was decoded; stray tells that it did not
\* start with the status line.
ReceivedResponse(S, h, stray, available, consumed, free, plan) ==
    IF stray \/ h.x = 0
    THEN Concluded(echttp_respond([S EXCEPT !.ctx.status = 505], 0, free),
                   "protocol error")
    ELSE IF h.v > available /\ S.ctx.asynchronous # 0
    THEN ReceivedAsynchronous(
             echttp_respond_async(
                 [S EXCEPT !.ctx.status = ResponseStatus(h), !.ctx.in = h,
                           !.ctx.protected = 0, !.ctx.contentlength = h.v,
                           !.ctx.state = ECHTTP_STATE_CONTENT],
                 h.r, plan, available),
             available, consumed)
    ELSE IF h.v > available
    THEN Returned([S EXCEPT !.ctx.status = ResponseStatus(h), !.ctx.in = h,
                            !.ctx.protected = 0, !.ctx.contentlength = h.v,
                            !.ctx.state = ECHTTP_STATE_CONTENT],
                  consumed)
    ELSE Concluded(echttp_respond(
                       [S EXCEPT !.ctx.status = ResponseStatus(h), !.ctx.in = h,
                                 !.ctx.protected = 0, !.ctx.contentlength = h.v],
                       h.v, free),
                   "end of response")

\* The loop "while a complete header is found": the body of the loop either
\* returns or breaks, so it runs at most once.  pos is the number of units
\* the data pointer has passed, consumed the count accumulated so far.
ReceivedHeader(S, pos, consumed, free, plan) ==
    IF pos >= Len(S.raw.in.data) \/ ~HeaderFound(S.raw.in.data, pos)
    THEN Returned(S, consumed)
    ELSE IF S.ctx.response # 0
    THEN ReceivedResponse(S, S.raw.in.data[HeaderAt(S.raw.in.data, pos)],
                          HeaderAt(S.raw.in.data, pos) # pos + 1,
                          Len(S.raw.in.data) - HeaderAt(S.raw.in.data, pos),
                          consumed + (HeaderAt(S.raw.in.data, pos) - pos), free,
                          plan)
    ELSE ReceivedRequest(S, S.raw.in.data[HeaderAt(S.raw.in.data, pos)],
                         Len(S.raw.in.data) - HeaderAt(S.raw.in.data, pos),
                         consumed + (HeaderAt(S.raw.in.data, pos) - pos), plan)

\* plan is what the application does for the first request executed by this
\* call, next what it does for a second one.
\* The content of an asynchronous request or response is written to the
\* file of the incoming transfer; when all of it was written the request is
\* executed, or the response callback called and the connection closed.
\* size is what write() returned.
TransferStored(S, size) ==
    [S EXCEPT !.gh.stored = @ \o SubSeq(S.raw.in.data, 1, size)]

\* The same, leaving the file of the transfer open when all was written.
ReceivedTransferOpen(S, size, free, plan) ==
    IF size <= 0
    THEN Returned(echttp_transfer_cancel([S EXCEPT !.ctx.state = ECHTTP_STATE_ERROR]),
                  Len(S.raw.in.data))
    ELSE IF S.ctx.transfer.size - size > 0
    THEN Returned([TransferStored(S, size) EXCEPT !.ctx.transfer.size = @ - size],
                  size)
    ELSE IF S.ctx.response # 0
    THEN Concluded(echttp_respond(
                       [TransferStored(S, size) EXCEPT
                            !.ctx.transfer = NoContextTransfer], 0, free),
                   "end of response")
    ELSE Returned(echttp_execute(
                      [TransferStored(S, size) EXCEPT
                           !.ctx.transfer = NoContextTransfer,
                           !.ctx.state = ECHTTP_STATE_IDLE],
                      S.ctx.uri, plan),
                  size)

ReceivedTransfer(S, size, free, plan) ==
    IF size <= 0
    THEN Returned(echttp_transfer_cancel([S EXCEPT !.ctx.state = ECHTTP_STATE_ERROR]),
                  Len(S.raw.in.data))
    ELSE IF S.ctx.transfer.size - size > 0
    THEN Returned([TransferStored(S, size) EXCEPT !.ctx.transfer.size = @ - size],
                  size)
    ELSE IF S.ctx.response # 0
    THEN Concluded(echttp_respond(
                       echttp_transfer_cancel(TransferStored(S, size)), 0, free),
                   "end of response")
    ELSE Returned(echttp_execute(
                      [echttp_transfer_cancel(TransferStored(S, size)) EXCEPT
                           !.ctx.state = ECHTTP_STATE_IDLE],
                      S.ctx.uri, plan),
                  size)

\* What write() is asked to take.
TransferWanted(S) == Min(S.ctx.transfer.size, Len(S.raw.in.data))

echttp_received(S, free, plan, next) ==
    IF S.ctx.state = ECHTTP_STATE_ERROR THEN Returned(S, Len(S.raw.in.data))
    ELSE IF /\ S.ctx.state = ECHTTP_STATE_CONTENT
            /\ S.ctx.transfer.state = ECHTTP_TRANSFER_IN
    THEN ReceivedTransfer(S, Min(plan.write, TransferWanted(S)), free, plan)
    ELSE IF S.ctx.state = ECHTTP_STATE_CONTENT
    THEN IF S.ctx.contentlength > Len(S.raw.in.data) THEN Returned(S, 0)
         ELSE IF S.ctx.response # 0
         THEN Concluded(echttp_respond(S, S.ctx.contentlength, free),
                        "end of response")
         ELSE ReceivedHeader(
                  [echttp_execute(S, S.ctx.uri, plan) EXCEPT
                       !.ctx.state = ECHTTP_STATE_IDLE],
                  S.ctx.contentlength, S.ctx.contentlength, free, next)
    ELSE ReceivedHeader(S, 0, 0, free, plan)

\* ------------------------------------------------------------------------
\* echttp_raw.c: input.

\* echttp_raw_bufferedinput without the call of echttp_raw_consume.
ConsumedNothing(got) == got

\* The end of echttp_raw_bufferedinput, after the receiver returned.
Consumed(got) ==
    IF got.S.raw.fd >= 0
    THEN [got EXCEPT !.S.raw.in = echttp_raw_consume(@, got.consumed)]
    ELSE [got EXCEPT !.consumed = 0]

echttp_raw_bufferedinput(S, free, plan, next) ==
    IF Len(S.raw.in.data) <= 0 THEN Returned(S, 0)
    ELSE Consumed(echttp_received(S, free, plan, next))

\* The room recv() is given: sizeof(data) - end - 1, less one.
ReceiveRoom(raw) == ClientBufferSize - BufferEnd(raw.in) - 1

\* The requests a segment is made of (empty when it is not made of complete
\* requests for existing routes only).
RECURSIVE WholeRequests(_)
WholeRequests(segment) ==
    IF Len(segment) = 0 THEN <<>>
    ELSE IF /\ segment[1].k = "H"
            /\ segment[1].x > 0
            /\ Len(segment) >= 1 + segment[1].v
            /\ \A j \in 2 .. (1 + segment[1].v) : segment[j].k = "B"
            /\ \/ Len(segment) = 1 + segment[1].v
               \/ WholeRequests(SubSeq(segment, 2 + segment[1].v, Len(segment))) # <<>>
         THEN <<segment[1].r>>
              \o WholeRequests(SubSeq(segment, 2 + segment[1].v, Len(segment)))
         ELSE <<>>

\* segment is what recv() returned: empty for an error or an end of file.
echttp_raw_receive(S, segment, time, free, plan, next) ==
    IF ReceiveRoom(S.raw) <= 0
    THEN Concluded(echttp_received_error([S EXCEPT !.gh.full = TRUE], free),
                   "data too large")
    ELSE IF Len(segment) = 0
    THEN Concluded(echttp_received_error(
                       [S EXCEPT !.gh.full = ReceiveRoom(S.raw) - 1 <= 0], free),
                   "recv error")
    ELSE [echttp_raw_bufferedinput(
              [S EXCEPT !.raw.in.data = @ \o segment,
                        !.gh.active = time,
                        !.gh.whole = IF S.gh.segments = 0
                                     THEN WholeRequests(segment) ELSE @,
                        !.gh.segments = Min(@ + 1, 2)],
              free, plan, next)
            EXCEPT !.S.raw = echttp_raw_extendlife(@, time),
                   !.S.gh.pushed =
                       @ \/ echttp_raw_extendlife(S.raw, time).deadline
                              # S.raw.deadline]

\* ------------------------------------------------------------------------
\* echttp.c: issuing a client request.

\* The request line and the Host line echttp_client sends.
ClientHead(r) == << <<Tok("R", r, 0, 0)>>, <<Tok("O", r, 0, 0)>> >>

\* echttp_client for a plain url, on the slot echttp_raw_manage obtained: S is
\* the previous content of that slot.  The two lines echttp_client sends are
\* the head of the message echttp_submit completes.
echttp_client(S, fd) ==
    [raw |-> echttp_raw_io_new(ECHTTP_RAW_TCP, fd),
     ctx |-> echttp_newclient(S.ctx),
     gh  |-> GhostInit]

\* echttp_redirected without the call of echttp_copy_attributes.
CopyNothing(src, dst) == dst

\* Set every attribute of src in dst (echttp_catalog_set replaces the value
\* of a name already present).
echttp_copy_attributes(src, dst) ==
    dst \o SelectSeq(src, LAMBDA a : a \notin {dst[i] : i \in 1 .. Len(dst)})

echttp_submit(S, r, length, response, origin) ==
    echttp_send_content([S EXCEPT !.ctx.response = response,
                                  !.ctx.origin = origin,
                                  !.gh.submitted = response # 0],
                        r, ClientHead(r), Rep(length, Tok("D", r, 0, 0)))

\* ------------------------------------------------------------------------
\* echttp.c: the routes.  A uri is a sequence of characters; the null
\* pointer of a discarded entry is NullUri.

NullUri == <<"">>

\* hash * 33 + tolower(c): an unsigned int is kept as two halves of 16 bits,
\* and the characters are '/', 'a' and 'A'.
HashStep(hash, c) ==
    LET code == IF c = "/" THEN 47 ELSE 97
    IN  [hi |-> (hash.hi * 33 + ((hash.lo * 33 + code) \div 65536)) % 65536,
         lo |-> (hash.lo * 33 + code) % 65536]

RECURSIVE Signature(_, _)
Signature(name, hash) ==
    IF Len(name) = 0 THEN hash
    ELSE Signature(Tail(name), HashStep(hash, Head(name)))

echttp_hash_signature(name) == Signature(name, [hi |-> 0, lo |-> 5381])

\* signature % ECHTTP_HASH.
HashIndex(signature) ==
    ((signature.hi % ECHTTP_HASH) * (65536 % ECHTTP_HASH) + signature.lo)
        % ECHTTP_HASH

RoutingInit ==
    [count |-> 0, index |-> [h \in 0 .. (ECHTTP_HASH - 1) |-> 0], item |-> <<>>]

NoLookup == [uri |-> NullUri, route |-> 0]

\* echttp_route_add: i is a discarded slot, or a new one.
echttp_route_add(routing, uri, match) ==
    LET i == IF \E k \in 1 .. routing.count : routing.item[k].uri = NullUri
             THEN CHOOSE k \in 1 .. routing.count :
                      /\ routing.item[k].uri = NullUri
                      /\ \A j \in 1 .. (k - 1) : routing.item[j].uri # NullUri
             ELSE routing.count + 1
        signature == echttp_hash_signature(uri)
        index == HashIndex(signature)
        item == [uri |-> uri, match |-> match, signature |-> signature,
                 next |-> routing.index[index]]
    IN  IF i >= ECHTTP_MAX_ROUTES THEN routing
        ELSE [count |-> Max(routing.count, i),
              index |-> [routing.index EXCEPT ![index] = i],
              item  |-> IF i > Len(routing.item) THEN Append(routing.item, item)
                        ELSE [routing.item EXCEPT ![i] = item]]

\* The test of an entry's kind against the kind searched for, and a test
\* that lets every entry pass.
MatchEvery(a, b) == 1

MatchMask(a, b) ==
    ((a % 2) * (b % 2)) + 2 * (((a \div 2) % 2) * ((b \div 2) % 2))

RECURSIVE RouteChain(_, _, _, _)
RouteChain(routing, i, uri, match) ==
    IF i <= 0 THEN -1
    ELSE IF MatchMask(routing.item[i].match, match) = 0
    THEN RouteChain(routing, routing.item[i].next, uri, match)
    ELSE IF /\ routing.item[i].signature = echttp_hash_signature(uri)
            /\ routing.item[i].uri = uri
    THEN i
    ELSE RouteChain(routing, routing.item[i].next, uri, match)

echttp_route_search(routing, uri, match) ==
    RouteChain(routing, routing.index[HashIndex(echttp_hash_signature(uri))],
               uri, match)

\* echttp_route_remove: the entry is taken out of its collision list (from
\* the head, or from the entry that precedes it) and discarded.
echttp_route_remove(routing, uri) ==
    LET i == echttp_route_search(routing, uri, ECHTTP_MATCH_ANY)
        index == HashIndex(echttp_hash_signature(uri))
        previous == {j \in 1 .. routing.count :
                        /\ routing.item[j].uri # NullUri
                        /\ HashIndex(routing.item[j].signature) = index
                        /\ routing.item[j].next = i}
        unlinked ==
            IF routing.index[index] = i
            THEN [routing EXCEPT !.index[index] = routing.item[i].next]
            ELSE [routing EXCEPT
                     !.item = [j \in 1 .. Len(routing.item) |->
                                  IF j \in previous
                                  THEN [routing.item[j] EXCEPT
                                           !.next = routing.item[i].next]
                                  ELSE routing.item[j]]]
    IN  IF i <= 0 THEN routing
        ELSE [unlinked EXCEPT !.item[i].uri = NullUri]

\* strrchr (uri+1, '/'): the position of the last '/' after the first
\* character, 0 when there is none.
LastSeparator(uri) ==
    IF \E k \in 2 .. Len(uri) : uri[k] = "/"
    THEN CHOOSE k \in 2 .. Len(uri) :
             /\ uri[k] = "/"
             /\ \A j \in (k + 1) .. Len(uri) : uri[j] # "/"
    ELSE 0

\* The loop that looks for a parent: the uri is cut at its last separator
\* until an entry for a parent is found.  For an empty uri, uri+1 is past
\* the terminator of the copy: strrchr reads the memory that follows, and
\* garbage is the number of '/' it finds there; the uri searched for stays
\* empty.
RECURSIVE RouteParent(_, _, _)
RouteParent(routing, uri, garbage) ==
    IF Len(uri) = 0
    THEN IF garbage = 0 THEN -1
         ELSE IF echttp_route_search(routing, uri, ECHTTP_MATCH_PARENT) > 0
         THEN echttp_route_search(routing, uri, ECHTTP_MATCH_PARENT)
         ELSE RouteParent(routing, uri, garbage - 1)
    ELSE IF LastSeparator(uri) = 0 THEN -1
    ELSE IF echttp_route_search(routing,
                                SubSeq(uri, 1, LastSeparator(uri) - 1),
                                ECHTTP_MATCH_PARENT) > 0
    THEN echttp_route_search(routing, SubSeq(uri, 1, LastSeparator(uri) - 1),
                             ECHTTP_MATCH_PARENT)
    ELSE RouteParent(routing, SubSeq(uri, 1, LastSeparator(uri) - 1), garbage)

\* The route echttp_received gives a request for uri: -1 when it answers
\* with echttp_unknown.
RouteOf(routing, uri, garbage) ==
    LET any == echttp_route_search(routing, uri, ECHTTP_MATCH_ANY)
        parent == RouteParent(routing, uri, garbage)
        root == echttp_route_search(routing, <<"/">>, ECHTTP_MATCH_PARENT)
    IN  IF any > 0 THEN any
        ELSE IF parent > 0 THEN parent
        ELSE IF root > 0 THEN root
        ELSE -1

\* ------------------------------------------------------------------------
\* echttp.c: the request line.  A string is a sequence of characters, NUL is
\* the character 0 and NullUri the null pointer.

NUL == "NUL"

\* The string a C function reads: the characters before the first NUL.
CString(s) ==
    IF \E k \in 1 .. Len(s) : s[k] = NUL
    THEN SubSeq(s, 1, (CHOOSE k \in 1 .. Len(s) :
                          /\ s[k] = NUL
                          /\ \A j \in 1 .. (k - 1) : s[j] # NUL) - 1)
    ELSE s

\* echttp_split for a separator of one character: the count returned, the
\* items stored, and whether an item was stored past the max items the
\* caller's array holds (the last item is stored without a test).
RECURSIVE Split(_, _, _, _, _, _)
Split(data, sep, max, pos, start, items) ==
    IF pos > Len(data)
    THEN IF pos > start
         THEN [count |-> Len(items) + 1,
               items |-> Append(items, SubSeq(data, start, Len(data))),
               overrun |-> Len(items) >= max]
         ELSE [count |-> Len(items), items |-> items, overrun |-> FALSE]
    ELSE IF data[pos] # sep
    THEN Split(data, sep, max, pos + 1, start, items)
    ELSE IF Len(items) >= max
    THEN [count |-> Len(items), items |-> items, overrun |-> FALSE]
    ELSE Split(data, sep, max, pos + 1, pos + 1,
               Append(items, SubSeq(data, start, pos - 1)))

echttp_split(data, sep, max) == Split(data, sep, max, 1, 1, <<>>)

\* The hexadecimal digits (in lower case), and the value of one.
HexDigits ==
    <<"0", "1", "2", "3", "4", "5", "6", "7", "8", "9",
      "a", "b", "c", "d", "e", "f">>

HexValue(c) == (CHOOSE i \in 1 .. 16 : HexDigits[i] = c) - 1

\* echttp_encoding_unescape: f is what is left to read, t what was written.
RECURSIVE Unescape(_, _)
Unescape(f, t) ==
    LET isxdigit(c) == \E i \in 1 .. 16 : HexDigits[i] = c
        hextoi(c) == HexValue(c)
        char(code) == IF code = 0 THEN NUL ELSE IF code = 46 THEN "."
                      ELSE IF code = 32 THEN " " ELSE ToString(code)
    IN  IF Len(f) = 0 THEN t
        ELSE IF Head(f) # "%" THEN Unescape(Tail(f), Append(t, Head(f)))
        ELSE IF Len(f) < 2 \/ ~isxdigit(f[2]) THEN NullUri
        ELSE IF Len(f) < 3 \/ ~isxdigit(f[3]) THEN NullUri
        ELSE Unescape(SubSeq(f, 4, Len(f)),
                      Append(t, char(16 * hextoi(f[2]) + hextoi(f[3]))))

echttp_encoding_unescape(data) == Unescape(data, <<>>)

\* The loop over the parameters of a query finds a name or a value that
\* cannot be decoded; an argument without '=' is not decoded.
ParameterInvalid(query) ==
    \E i \in 1 .. echttp_split(query, "&", 32).count :
        /\ echttp_split(echttp_split(query, "&", 32).items[i], "=", 4).count >= 2
        /\ \E n \in 1 .. 2 :
              echttp_encoding_unescape(
                  echttp_split(echttp_split(query, "&", 32).items[i],
                               "=", 4).items[n]) = NullUri

NoRequest ==
    [line |-> <<>>, fate |-> "", reply |-> 0, reason |-> "", closed |-> FALSE,
     undefined |-> FALSE, uri |-> NullUri]

\* What echttp_received does with a request line, up to the search of a
\* route (fate "route").  Where the behaviour is undefined (an item stored
\* past the array request[4], strstr called with a null pointer), luck tells
\* whether the process crashes or goes on.
RequestOutcome(line, fate, reply, reason, closed, undefined, uri) ==
    [line |-> line, fate |-> fate, reply |-> reply, reason |-> reason,
     closed |-> closed, undefined |-> undefined, uri |-> uri]

RequestTarget(line, method, rawuri, uri, luck) ==
    IF uri = NullUri /\ luck = "crash"
    THEN RequestOutcome(line, "crash", 0, "", FALSE, TRUE, NullUri)
    ELSE IF uri # NullUri
            /\ \E k \in 1 .. (Len(CString(uri)) - 1) :
                  CString(uri)[k] = "." /\ CString(uri)[k + 1] = "."
    THEN RequestOutcome(line, "closed", 0, "path traversal", TRUE, FALSE,
                        CString(uri))
    ELSE IF method = NullUri \/ uri = NullUri
    THEN RequestOutcome(line, "invalid", 406, "Invalid request format", FALSE,
                        uri = NullUri, NullUri)
    ELSE IF rawuri.count = 2 /\ ParameterInvalid(rawuri.items[2])
    THEN RequestOutcome(line, "invalid", 406, "Invalid Parameter Syntax",
                        FALSE, FALSE, CString(uri))
    ELSE RequestOutcome(line, "route", 0, "", FALSE, FALSE, CString(uri))

RequestLine(line, luck) ==
    LET request == echttp_split(line, " ", 4)
    IN  IF request.overrun /\ luck = "crash"
        THEN RequestOutcome(line, "crash", 0, "", FALSE, TRUE, NullUri)
        ELSE IF request.count # 3
        THEN RequestOutcome(line, "invalid", 406, "Invalid Request Line",
                            FALSE, request.overrun, NullUri)
        ELSE RequestTarget(line, echttp_encoding_unescape(request.items[1]),
                           echttp_split(request.items[2], "?", 4),
                           echttp_encoding_unescape(
                               echttp_split(request.items[2], "?", 4).items[1]),
                           luck)

\* ------------------------------------------------------------------------
\* echttp.c: chunked content.  buffer is what follows the header block, CR
\* and LF are the two characters of a line end.

NoChunked ==
    [chunks |-> <<>>, fate |-> "", content |-> <<>>, length |-> 0,
     consumed |-> 0, left |-> <<>>]

\* The position of the first character at or after decode that is not
\* skipped before a chunk size (a character up to ' ').
RECURSIVE ChunkStart(_, _)
ChunkStart(buffer, decode) ==
    IF decode <= Len(buffer) /\ buffer[decode] \in {"CR", "LF", " "}
    THEN ChunkStart(buffer, decode + 1)
    ELSE decode

\* strtol (decode, &decode, 16): the value, and the position after the
\* digits.
RECURSIVE ChunkSize(_, _, _)
ChunkSize(buffer, decode, size) ==
    IF decode <= Len(buffer) /\ \E i \in 1 .. 16 : HexDigits[i] = buffer[decode]
    THEN ChunkSize(buffer, decode + 1, 16 * size + HexValue(buffer[decode]))
    ELSE [size |-> size, decode |-> decode]

\* The position after the next LF (past the end when there is none).
RECURSIVE ChunkLine(_, _)
ChunkLine(buffer, decode) ==
    IF decode > Len(buffer) THEN decode + 1
    ELSE IF buffer[decode] = "LF" THEN decode + 1
    ELSE ChunkLine(buffer, decode + 1)

\* memmove (cursor, decode, size), and a variant that moves nothing.
ChunkKept(buffer, cursor, decode, size) == buffer

ChunkMoved(buffer, cursor, decode, size) ==
    [k \in 1 .. Len(buffer) |->
        IF k >= cursor /\ k < cursor + size THEN buffer[decode + (k - cursor)]
        ELSE buffer[k]]

\* The loop that removes the chunking: cursor is where the content ends,
\* extracted its length so far; the content starts at the position 1.  The
\* loop reads past the data received when a size line has no LF or a chunk
\* is not complete (fate "undefined").
RECURSIVE ChunkLoop(_, _, _, _, _)
ChunkLoop(chunks, buffer, decode, cursor, extracted) ==
    LET start == ChunkStart(buffer, decode)
        number == ChunkSize(buffer, start, 0)
        data == ChunkLine(buffer, number.decode)
    IN  IF start > Len(buffer)
        THEN [chunks |-> chunks, fate |-> "incomplete chunked data",
              content |-> <<>>, length |-> 0, consumed |-> 0, left |-> <<>>]
        ELSE IF data + number.size > Len(buffer) + 1
        THEN [chunks |-> chunks, fate |-> "undefined", content |-> <<>>,
              length |-> 0, consumed |-> 0, left |-> <<>>]
        ELSE IF number.size = 0
        THEN [chunks |-> chunks, fate |-> "execute",
              content |-> SubSeq(buffer, 1, extracted), length |-> extracted,
              consumed |-> data - 1,
              left |-> SubSeq(buffer, data, Len(buffer))]
        ELSE ChunkLoop(chunks, ChunkMoved(buffer, cursor, data, number.size),
                       data + number.size, cursor + number.size,
                       extracted + number.size)

\* ------------------------------------------------------------------------
\* echttp_raw.c: the pool of slots as echttp_raw_register, echttp_raw_forget,
\* echttp_raw_update and echttp_raw_close_client see it.  A slot holds its
\* use, its fd, its premium flag, its deadline (0: none), the mode and the
\* listener of an application fd (an integer names the function, 0 is the
\* null pointer), and for a TCP slot the number of buffers of its overflow
\* queue and the fd of its transfer (0: none).  removed is history: the last
\* registration of the fd had the mode 0.
\* Beside the slots io, the pool holds echttp_raw_io_last (last), whether
\* echttp_raw_terminate was set (terminate), where the program is (phase:
\* "open" before echttp_raw_loop, "loop", "closed" after echttp_raw_close,
\* "undefined" after an access outside of the table), the fd sets select()
\* returned, the position pc of the loop that serves them (0: not started),
\* whether the last step called the application (running), and history:
\* the last call made (op), the events of the last close (closed) and the
\* last listener called (called).

PoolSlots == 0 .. (PoolSize - 1)
Fds == 1 .. MaxFd

IoUnused ==
    [use |-> ECHTTP_RAW_UNUSED, fd |-> -1, premium |-> 0, deadline |-> 0,
     mode |-> 0, listener |-> 0, next |-> 0, transfer |-> 0, removed |-> FALSE]

NoCall == [name |-> "", fd |-> -1, known |-> FALSE]
NoClose == [slot |-> -1, use |-> ECHTTP_RAW_UNUSED, reason |-> "", events |-> <<>>]
NoListener == [id |-> -1, mode |-> 0, listener |-> 0, removed |-> FALSE]

PoolInit ==
    [io |-> [i \in PoolSlots |-> IoUnused], last |-> 0, terminate |-> FALSE,
     phase |-> "open", readset |-> {}, writeset |-> {}, pc |-> 0,
     running |-> FALSE, op |-> NoCall, result |-> -1, closed |-> NoClose, called |-> NoListener]

\* The slots that hold an fd, among the first n+1.
Holding(T, fd, n) == {i \in PoolSlots : i <= n /\ T.io[i].fd = fd}
InUse(T) == {i \in PoolSlots : T.io[i].use # ECHTTP_RAW_UNUSED}

\* echttp_raw_io_cleanup: the slot is unused, and echttp_raw_io_last steps
\* down to the last slot in use when the slot was the last one.  (The union
\* state is left as it is: echttp_raw_io_new writes it before any read.)
echttp_raw_io_cleanup(T, i) ==
    LET io    == [T.io EXCEPT ![i] = IoUnused]
        below == {j \in PoolSlots : j < i /\ io[j].use # ECHTTP_RAW_UNUSED}
    IN  [T EXCEPT !.io = io,
                  !.last = IF i # T.last THEN @
                           ELSE IF below = {} THEN 0
                           ELSE CHOOSE j \in below : \A k \in below : k <= j]

\* echttp_raw_io_new on the pool: the first unused slot, or -1 (in op.result).
IoNew(T, use, fd) ==
    LET free == {i \in PoolSlots : T.io[i].use = ECHTTP_RAW_UNUSED}
        i    == CHOOSE j \in free : \A k \in free : j <= k
    IN  IF use = ECHTTP_RAW_UNUSED \/ free = {}
        THEN [T EXCEPT !.result = -1]
        ELSE [T EXCEPT !.io[i] = [IoUnused EXCEPT !.fd = fd, !.use = use],
                       !.last = Max(@, i),
                       !.result = i]

\* What echttp_raw_register writes to the slot of an fd it knows, with a
\* variant that writes the premium flag and the listener whatever the mode.
RegisteredAlways(slot, m, listener, flag) ==
    [slot EXCEPT !.mode = m, !.premium = flag, !.listener = listener,
                 !.removed = (m = 0)]

Registered(slot, m, listener, flag) ==
    [slot EXCEPT !.mode = m,
                 !.premium = IF m # 0 THEN flag ELSE @,
                 !.listener = IF m # 0 THEN listener ELSE @,
                 !.removed = (m = 0)]

\* echttp_raw_register (echttp_raw_attach is the call with premium = -1).
echttp_raw_register(T, fd, mode, listener, premium) ==
    LET use   == IF premium < 0 THEN ECHTTP_RAW_APP ELSE ECHTTP_RAW_LISTEN
        flag  == IF premium < 0 THEN 0 ELSE premium
        m     == IF listener = 0 THEN 0 ELSE mode
        known == Holding(T, fd, T.last)
        i     == CHOOSE j \in known : \A k \in known : j <= k
        N     == IoNew(T, use, fd)
    IN  IF known # {}
        THEN IF T.io[i].use # use THEN [T EXCEPT !.result = -1]
             ELSE [T EXCEPT !.io[i] = Registered(@, m, listener, flag),
                            !.result = i]
        ELSE IF m = 0 THEN [T EXCEPT !.result = -1]
        ELSE IF N.result < 0 THEN N
        ELSE [N EXCEPT !.io[N.result].premium = flag,
                       !.io[N.result].mode = m,
                       !.io[N.result].listener = listener]

echttp_raw_update(T, client, mode) ==
    IF client < 0 \/ client > T.last THEN [T EXCEPT !.result = -1]
    ELSE IF T.io[client].use \in {ECHTTP_RAW_APP, ECHTTP_RAW_LISTEN}
         THEN [T EXCEPT !.io[client].mode = mode, !.result = client]
         ELSE [T EXCEPT !.result = client]

\* echttp_raw_forget: the search stops before echttp_raw_io_last.
echttp_raw_forget(T, fd) ==
    LET known == Holding(T, fd, T.last - 1)
        i     == CHOOSE j \in known : \A k \in known : j <= k
    IN  IF known # {} /\ T.io[i].use = ECHTTP_RAW_LISTEN
        THEN echttp_raw_io_cleanup(T, i)
        ELSE T

\* What echttp_raw_close_client does to a slot in use, in order, with a
\* variant that closes the socket before it calls the terminator.
CloseFirst(slot, terminate) ==
    (IF slot.use = ECHTTP_RAW_TCP
     THEN (IF slot.transfer > 0 THEN <<"close transfer">> ELSE <<>>)
          \o <<"release queue">>
     ELSE <<>>)
    \o (IF slot.use \in {ECHTTP_RAW_TCP, ECHTTP_RAW_APP}
        THEN <<"close">> \o (IF terminate THEN <<"terminate">> ELSE <<>>)
        ELSE <<>>)
    \o <<"unused">>

CloseEvents(slot, terminate) ==
    (IF slot.use = ECHTTP_RAW_TCP
     THEN (IF slot.transfer > 0 THEN <<"close transfer">> ELSE <<>>)
          \o <<"release queue">>
     ELSE <<>>)
    \o (IF slot.use \in {ECHTTP_RAW_TCP, ECHTTP_RAW_APP}
        THEN (IF terminate THEN <<"terminate">> ELSE <<>>) \o <<"close">>
        ELSE <<>>)
    \o <<"unused">>

\* echttp_raw_close_client on the pool.  An index outside of the table reads
\* memory that is not a slot: the call may do nothing or anything (phase
\* "undefined"), as luck has it.
PoolClose(T, i, reason, luck) ==
    IF i \notin PoolSlots
    THEN IF luck THEN T ELSE [T EXCEPT !.phase = "undefined"]
    ELSE IF T.io[i].fd < 0 THEN T
    ELSE echttp_raw_io_cleanup(
             [T EXCEPT !.closed = [slot |-> i, use |-> T.io[i].use, reason |-> reason,
                                   events |-> CloseEvents(T.io[i], T.terminate)]],
             i)

\* echttp_raw_close: every slot that holds an fd is closed.
RECURSIVE CloseFrom(_, _)
CloseFrom(T, i) ==
    IF i > T.last \/ i \notin PoolSlots THEN T
    ELSE CloseFrom(PoolClose(T, i, "closing server", TRUE), i + 1)

echttp_raw_close(T) == [CloseFrom(T, 0) EXCEPT !.phase = "closed"]

\* echttp_raw_accept on the pool: the acceptor's verdict decides.  Without a
\* slot the socket is closed; a rejected client leaves its slot and its
\* socket is closed, the terminator is not called.
PoolAccept(T, s, verdict, busy) ==
    LET N == IoNew(T, ECHTTP_RAW_TCP, s)
        i == N.result
    IN  IF i < 0 THEN N
        ELSE IF verdict = 0
        THEN echttp_raw_io_cleanup(
                 [N EXCEPT !.closed = [slot |-> i, use |-> ECHTTP_RAW_TCP,
                                       reason |-> "rejected",
                                       events |-> <<"unused", "close">>]], i)
        ELSE [N EXCEPT !.io[i].deadline = 1,
                       !.io[i].next = IF busy THEN 1 ELSE 0,
                       !.io[i].transfer = IF busy THEN s ELSE 0]

\* echttp_client as the pool sees it.  A plain client is handed over with
\* echttp_raw_manage.  A TLS client is attached with the mode 3, then
\* echttp_tls_attach tells what it waits for: -1 closes the slot, 0 or 1
\* call echttp_raw_update with the socket where the slot is meant.
PoolClient(T, s, secure, attached, luck) ==
    LET A == echttp_raw_register(T, s, 3, 9, -1)
        client == A.result
    IN  IF ~secure THEN IoNew(T, ECHTTP_RAW_TCP, s)
        ELSE IF client < 0 \/ attached = -1
        THEN PoolClose(A, client, "TLS failed", luck)
        ELSE IF attached \in {0, 1}
        THEN [echttp_raw_update(A, s, 1) EXCEPT !.result = client]
        ELSE A

\* The fd sets echttp_raw_loop builds.
ReadSet(T) ==
    {T.io[i].fd : i \in {j \in InUse(T) :
        \/ /\ T.io[j].use = ECHTTP_RAW_TCP
           /\ T.io[j].next = 0 /\ T.io[j].transfer = 0
        \/ /\ T.io[j].use # ECHTTP_RAW_TCP
           /\ T.io[j].mode \in {1, 3}}}

WriteSet(T) ==
    {T.io[i].fd : i \in {j \in InUse(T) :
        \/ /\ T.io[j].use = ECHTTP_RAW_TCP
           /\ (T.io[j].next > 0 \/ T.io[j].transfer > 0)
        \/ /\ T.io[j].use # ECHTTP_RAW_TCP
           /\ T.io[j].mode \in {2, 3}}}

\* The events select() reported for an fd.
Reported(T, fd) ==
    (IF fd \in T.readset THEN 1 ELSE 0) + (IF fd \in T.writeset THEN 2 ELSE 0)

\* One turn of the two loops that serve the events: the slots are visited
\* once for the premium listeners, then once for all the others.
PoolServe(T) ==
    LET first == T.pc <= PoolSize
        i     == IF first THEN T.pc - 1 ELSE T.pc - PoolSize - 1
        slot  == T.io[i]
        mode  == Reported(T, slot.fd)
        turn  == IF first
                 THEN slot.premium # 0 /\ slot.use = ECHTTP_RAW_LISTEN
                 ELSE \/ slot.use = ECHTTP_RAW_APP
                      \/ slot.use = ECHTTP_RAW_LISTEN /\ slot.premium = 0
        next  == IF T.pc = 2 * PoolSize THEN 0 ELSE T.pc + 1
        done  == [T EXCEPT !.pc = next, !.op = NoCall, !.result = -1,
                           !.closed = NoClose,
                           !.called = NoListener,
                           !.readset = IF next = 0 THEN {} ELSE @,
                           !.writeset = IF next = 0 THEN {} ELSE @]
    IN  IF i <= T.last /\ turn /\ slot.mode # 0 /\ mode # 0
        THEN [done EXCEPT !.running = next # 0,
                          !.called = [id |-> IF slot.use = ECHTTP_RAW_APP THEN i ELSE slot.fd,
                                      mode |-> mode, listener |-> slot.listener,
                                      removed |-> slot.removed]]
        ELSE [done EXCEPT !.running = /\ next # 0
                                      /\ \/ @
                                         \/ /\ ~first /\ i <= T.last
                                            /\ slot.use = ECHTTP_RAW_TCP /\ mode # 0]

\* ------------------------------------------------------------------------
\* echttp_tls.c and the TLS client of echttp.c.  One client is followed.  X
\* holds its registration (ssl: the pointer is not null, pending,
\* transfer_fd, transfer_length, out), the return value of the last function
\* (ret), its slot (use, listen: the mode the loop listens with), its
\* context (mode, response, status, transfer) and history: the units handed
\* to echttp_send (sent), those SSL_write took (wire), the size and the fd
\* given to echttp_transfer, the fds closed, the reason of the close, the
\* status given to the response callback (answered), the function in which
\* SSL reported a fatal error (fatal) and whether a response was awaited
\* then (awaited), whether a null SSL pointer was used (undefined) and
\* whether echttp_raw_update was given the socket for the slot (stray).
\* The outcome of an SSL call is "NONE", "WANT_READ", "WANT_WRITE" or
\* "FATAL" (every other error).

TlsInit ==
    [ssl |-> FALSE, pending |-> ECHTTP_TLS_IDLE, transfer_fd |-> -1,
     transfer_length |-> 0, out |-> <<>>, ret |-> 0,
     use |-> ECHTTP_RAW_UNUSED, listen |-> 0,
     mode |-> ECHTTP_RAW, response |-> FALSE, status |-> 0,
     transfer |-> NoContextTransfer,
     phase |-> "idle", sent |-> <<>>, wire |-> <<>>, announced |-> 0, file |-> -1,
     closed |-> {}, reason |-> "", answered |-> 0, fatal |-> "", awaited |-> FALSE,
     undefined |-> FALSE, stray |-> FALSE]

echttp_tls_cleanup(X) ==
    [X EXCEPT !.ssl = FALSE, !.pending = ECHTTP_TLS_IDLE,
              !.closed = IF X.transfer_fd >= 0 THEN @ \cup {X.transfer_fd} ELSE @,
              !.transfer_fd = -1, !.transfer_length = 0, !.out = <<>>]

\* An SSL function reported a fatal error to the function named.  With a
\* null SSL pointer the call is undefined: it fails as well, or the program
\* stops there (see Luck).
Failed(X, o, name) ==
    IF X.ssl
    THEN [echttp_tls_cleanup(X) EXCEPT !.ret = -1, !.fatal = name,
                                       !.awaited = X.response]
    ELSE [X EXCEPT !.ret = -1, !.undefined = TRUE]

echttp_tls_connect(X, o) ==
    LET P == [X EXCEPT !.pending = ECHTTP_TLS_CONNECT]
    IN  IF ~X.ssl \/ o = "FATAL" THEN Failed(P, o, "handshake")
        ELSE IF o = "NONE"
        THEN IF X.transfer_length > 0
             THEN [P EXCEPT !.pending = ECHTTP_TLS_TRANSFER, !.ret = 2]
             ELSE [P EXCEPT !.pending = ECHTTP_TLS_IDLE,
                            !.ret = IF Len(X.out) > 0 THEN 2 ELSE 0]
        ELSE [P EXCEPT !.ret = IF o = "WANT_READ" THEN 0 ELSE 2]

\* echttp_tls_flush.  SSL_write takes the whole buffer or nothing.
echttp_tls_flush(X, o) ==
    IF X.pending = ECHTTP_TLS_CONNECT THEN [X EXCEPT !.ret = 2]
    ELSE IF Len(X.out) = 0 THEN [X EXCEPT !.ret = 0]
    ELSE IF ~X.ssl \/ o = "FATAL" THEN Failed(X, o, "write")
    ELSE IF o = "NONE"
    THEN [X EXCEPT !.wire = @ \o X.out, !.out = <<>>, !.ret = 0]
    ELSE [X EXCEPT !.ret = IF o = "WANT_READ" THEN 1 ELSE 2]

\* echttp_tls_send: echttp_tls_store keeps what fits in the buffer, and the
\* result of echttp_tls_flush is not looked at.
echttp_tls_send(X, data, o) ==
    LET length == Min(Len(data), TlsBufferSize - Len(X.out))
        stored == [X EXCEPT !.out = @ \o SubSeq(data, 1, length),
                            !.sent = @ \o data]
    IN  [echttp_tls_flush(stored, o) EXCEPT !.ret = length]

echttp_tls_transmit(X, o) ==
    LET idle   == [X EXCEPT !.transfer_length = 0,
                            !.pending = IF @ = ECHTTP_TLS_TRANSFER
                                        THEN ECHTTP_TLS_IDLE ELSE @]
        length == Min(X.transfer_length, TlsBufferSize - Len(X.out))
        read   == [X EXCEPT !.out = @ \o Rep(length, Tok("F", 0, X.transfer_fd, 0)),
                            !.transfer_length = @ - length]
    IN  IF X.transfer_length <= 0 THEN echttp_tls_flush(idle, o)
        ELSE IF length <= 0 THEN [X EXCEPT !.ret = 2]
        ELSE IF read.transfer_length <= 0
        THEN echttp_tls_flush([read EXCEPT !.closed = @ \cup {X.transfer_fd},
                                           !.transfer_fd = -1,
                                           !.pending = ECHTTP_TLS_IDLE], o)
        ELSE [echttp_tls_flush(read, o) EXCEPT !.ret = 2]

\* The slot is closed: the terminator (echttp_terminate) detaches the TLS
\* client, the socket is closed and the slot is unused.
TlsClose(X, reason) ==
    IF X.use = ECHTTP_RAW_UNUSED THEN X
    ELSE [(IF X.mode = ECHTTP_TLS /\ X.ssl THEN echttp_tls_cleanup(X) ELSE X)
             EXCEPT !.use = ECHTTP_RAW_UNUSED, !.listen = 0, !.reason = reason]

\* echttp_respond: the response callback is called once with the status.
TlsRespond(X) ==
    IF X.response THEN [X EXCEPT !.answered = X.status, !.response = FALSE]
    ELSE X

\* echttp_tls_receive.  What SSL_read returned is given to echttp_received,
\* which waits for more or has the whole response: it calls the response
\* callback and closes the slot.
echttp_tls_receive(X, o, whole) ==
    IF X.pending = ECHTTP_TLS_CONNECT THEN [X EXCEPT !.ret = 0]
    ELSE IF ~X.ssl \/ o = "FATAL" THEN Failed(X, o, "read")
    ELSE IF o = "NONE"
    THEN IF whole /\ X.response
         THEN [TlsClose(TlsRespond([X EXCEPT !.status = 200]), "end of response")
                  EXCEPT !.ret = 1]
         ELSE [X EXCEPT !.ret = 1]
    ELSE [X EXCEPT !.ret = IF o = "WANT_READ" THEN 1 ELSE 2]

\* The operator | of C on the values the TLS functions return.
BitOr(a, b) ==
    IF a < 0 \/ b < 0 THEN -1
    ELSE Max(a % 2, b % 2) + 2 * Max(a \div 2, b \div 2)

echttp_tls_ready(X, mode, o, other, whole) ==
    LET flushed  == echttp_tls_flush(X, o)
        received == echttp_tls_receive(flushed, other, whole)
        sent     == echttp_tls_transmit(X, o)
    IN  IF X.pending = ECHTTP_TLS_CONNECT THEN echttp_tls_connect(X, o)
        ELSE IF X.pending = ECHTTP_TLS_TRANSFER
        THEN IF mode \in {2, 3}
             THEN [sent EXCEPT !.ret = BitOr(mode % 2, sent.ret)]
             ELSE [X EXCEPT !.ret = mode % 2]
        ELSE IF mode = 1 THEN echttp_tls_receive(X, other, whole)
        ELSE IF mode = 2 THEN flushed
        ELSE IF mode = 3 THEN [received EXCEPT !.ret = BitOr(flushed.ret, received.ret)]
        ELSE [X EXCEPT !.ret = 0]

echttp_listener_tls(X, mode, o, other, whole) ==
    LET R == echttp_tls_ready(X, mode, o, other, whole)
    IN  IF R.ret < 0
        THEN TlsClose(TlsRespond([R EXCEPT !.status = IF R.response THEN 505 ELSE @]),
                      "TLS failure")
        ELSE IF R.use = ECHTTP_RAW_UNUSED THEN R
        ELSE [R EXCEPT !.listen = BitOr(R.ret, 1)]

\* echttp_client for a https url: the socket s is attached with the mode 3,
\* the handshake starts, and the request line and the Host line are sent.
TlsClient(X, s, o1, o2, o3) ==
    LET attached == [echttp_tls_cleanup(X) EXCEPT
                        !.use = ECHTTP_RAW_APP, !.listen = 3, !.ssl = TRUE,
                        !.phase = "client"]
        started  == echttp_tls_connect(attached, o1)
        updated  == [started EXCEPT !.stray = (started.ret \in {0, 1})]
        current  == [updated EXCEPT !.mode = ECHTTP_TLS, !.response = FALSE,
                                    !.transfer = NoContextTransfer]
    IN  IF started.ret = -1
        THEN [TlsClose(started, "TLS failed") EXCEPT !.phase = "failed"]
        ELSE echttp_tls_send(echttp_tls_send(current, <<Tok("S", 0, 0, 0)>>, o2),
                             <<Tok("A", 0, 0, 0)>>, o3)

\* echttp_transfer in the frame of the client request.
TlsTransfer(X, fd, size) ==
    IF X.transfer.state # ECHTTP_TRANSFER_IDLE THEN X
    ELSE [X EXCEPT !.transfer = [state |-> ECHTTP_TRANSFER_OUT, fd |-> fd,
                                 size |-> size],
                   !.announced = size, !.file = fd]

\* echttp_submit and its echttp_send_content: the Content-Length line, the
\* empty line and the data go to echttp_tls_send; the transfer goes to
\* echttp_raw_transfer, which refuses a slot that is not a TCP slot, and the
\* context forgets it.
TlsSubmit(X, length, o1, o2, o3) ==
    LET size == IF X.transfer.size > 0 /\ X.transfer.state = ECHTTP_TRANSFER_OUT
                THEN X.transfer.size ELSE 0
        head == echttp_tls_send(
                    echttp_tls_send([X EXCEPT !.response = TRUE, !.phase = "submitted"],
                                    <<Tok("C", 0, length + size, 0)>>, o1),
                    <<Tok("N", 0, 0, 0)>>, o2)
        body == IF length > 0
                THEN echttp_tls_send(head, Rep(length, Tok("D", 0, 0, 0)), o3)
                ELSE head
    IN  IF size > 0
        THEN [body EXCEPT !.transfer = NoContextTransfer]
        ELSE body

\* ------------------------------------------------------------------------
\* echttp_catalog.c: the map of the headers and of the parameters.  A name
\* is a sequence of character codes, a value is a positive number, and 0
\* stands for the null pointer.

NullName == <<0>>

\* "aa", "Aa", "b@" (the signature of "aa"), "d}" (the hash code of "aa",
\* another signature) and "x".
Names == {<<97, 97>>, <<65, 97>>, <<98, 64>>, <<100, 125>>, <<120>>}

Values == {1, 2}

KeepCase(c) == c

tolower(c) == IF c >= 65 /\ c <= 90 THEN c + 32 ELSE c

strcasecmp(a, b) ==
    IF /\ Len(a) = Len(b)
       /\ \A i \in 1 .. Len(a) : tolower(a[i]) = tolower(b[i])
    THEN 0 ELSE 1

\* hash * 33 + tolower(c), on the two halves of an unsigned int.
CatalogStep(hash, c) ==
    [hi |-> (hash.hi * 33 + ((hash.lo * 33 + tolower(c)) \div 65536)) % 65536,
     lo |-> (hash.lo * 33 + tolower(c)) % 65536]

RECURSIVE CatalogSignature(_, _)
CatalogSignature(name, hash) ==
    IF Len(name) = 0 THEN hash
    ELSE CatalogSignature(Tail(name), CatalogStep(hash, Head(name)))

echttp_catalog_signature(name) ==
    CatalogSignature(name, [hi |-> 0, lo |-> 5381])

NoSymbol ==
    [name |-> NullName, value |-> 0, signature |-> [hi |-> 0, lo |-> 0],
     next |-> 0]

\* The signature of an item is left as it was.
echttp_catalog_reset(d) ==
    [count |-> 0,
     index |-> [h \in 0 .. (ECHTTP_HASH - 1) |-> 0],
     item  |-> [i \in 1 .. (MaxSymbol - 1) |->
                   [d.item[i] EXCEPT !.name = NullName, !.value = 0, !.next = 0]]]

CatalogInit ==
    echttp_catalog_reset([count |-> 0,
                          index |-> [h \in 0 .. (ECHTTP_HASH - 1) |-> 0],
                          item  |-> [i \in 1 .. (MaxSymbol - 1) |-> NoSymbol]])

RECURSIVE CatalogChain(_, _, _, _)
CatalogChain(d, i, signature, name) ==
    IF i <= 0 THEN 0
    ELSE IF /\ d.item[i].signature = signature
            /\ strcasecmp(name, d.item[i].name) = 0
         THEN i
         ELSE CatalogChain(d, d.item[i].next, signature, name)

echttp_catalog_search(d, signature, name) ==
    CatalogChain(d, d.index[HashIndex(signature)], signature, name)

echttp_catalog_find(d, name) ==
    echttp_catalog_search(d, echttp_catalog_signature(name), name)

\* echttp_catalog_refresh without its timestamp, which is echttp_catalog_set.
echttp_catalog_set(d, name, value) ==
    LET signature == echttp_catalog_signature(name)
        index == echttp_catalog_search(d, signature, name)
        hash == HashIndex(signature)
    IN  IF index > 0
        THEN [d EXCEPT !.item[index].value = value]
        ELSE IF d.count + 1 >= MaxSymbol THEN d
        ELSE [count |-> d.count + 1,
              index |-> [d.index EXCEPT ![hash] = d.count + 1],
              item  |-> [d.item EXCEPT ![d.count + 1] =
                            [name |-> name, value |-> value,
                             signature |-> signature, next |-> d.index[hash]]]]

echttp_catalog_get(d, name) ==
    LET i == echttp_catalog_find(d, name)
    IN  IF i > 0 THEN d.item[i].value ELSE 0

\* The catalog with what was asked of it since the last reset (log),
\* whether a name was refused for lack of room (full), and whether a reset
\* ran (wiped).
CatalogStart == [d |-> CatalogInit, log |-> <<>>, full |-> FALSE, wiped |-> FALSE]

\* ------------------------------------------------------------------------
\* echttp_encoding.c on bytes: a string is the sequence of its bytes before
\* the terminator, and reading at its end gives the terminator, 0.

NullString == <<-1>>

\* '\n', '%', '+', '/', 'A' and a byte above 127.
Bytes == {10, 37, 43, 47, 65, 200}

\* '%', '4', 'A', 'a' and 'g'.
Escapes == {37, 52, 65, 97, 103}

StringsOf(alphabet) ==
    UNION {[1 .. n -> alphabet] : n \in 0 .. MaxString}

isxdigit(c) == c \in (48 .. 57) \cup (65 .. 70) \cup (97 .. 102)

echttp_encoding_hextoi(a) ==
    IF a \in 48 .. 57 THEN a - 48 ELSE tolower(a) - 97 + 10

ItohexDecimal(a) == 48 + a

echttp_encoding_itohex(a) ==
    IF a > 15 THEN 70
    ELSE IF a < 10 THEN 48 + a
    ELSE 65 + a - 10

\* echttp_encoding_init: , / : ; < = > ? @ [ \ ] ^ ` and %.
echttp_encoding_table == {37, 44, 47, 58, 59, 60, 61, 62, 63, 64, 91, 92, 93, 94, 96}

\* The loop of echttp_encoding_escape: d is what was written (i = Len(d)),
\* size the size less the terminator.
RECURSIVE Escape(_, _, _)
Escape(s, d, size) ==
    LET c == IF Len(s) = 0 THEN 0 ELSE Head(s)
    IN  IF Len(d) >= size THEN d
        ELSE IF c <= 41 \/ c >= 123 \/ c \in echttp_encoding_table
        THEN IF c <= 0 THEN d
             ELSE IF Len(d) >= size - 3 THEN d
             ELSE Escape(Tail(s),
                         d \o <<37, echttp_encoding_itohex(c \div 16),
                                echttp_encoding_itohex(c % 16)>>,
                         size)
        ELSE Escape(Tail(s), Append(d, c), size)

echttp_encoding_escape(s, size) == Escape(s, <<>>, size - 1)

\* The string a buffer holds: its bytes before the first 0.
RECURSIVE StringOf(_)
StringOf(t) ==
    IF Len(t) = 0 \/ Head(t) = 0 THEN <<>>
    ELSE <<Head(t)>> \o StringOf(Tail(t))

\* The loop of echttp_encoding_unescape on bytes: f is what is left to
\* read, t what was written, never ahead of f.
RECURSIVE UnescapeLoop(_, _)
UnescapeLoop(f, t) ==
    LET at(k) == IF Len(f) >= k THEN f[k] ELSE 0
    IN  IF Len(f) = 0 THEN StringOf(t)
        ELSE IF Head(f) # 37 THEN UnescapeLoop(Tail(f), Append(t, Head(f)))
        ELSE IF ~isxdigit(at(2)) \/ ~isxdigit(at(3)) THEN NullString
        ELSE UnescapeLoop(SubSeq(f, 4, Len(f)),
                          Append(t, (16 * echttp_encoding_hextoi(at(2))
                                     + echttp_encoding_hextoi(at(3))) % 256))

UnescapeBytes(data) == UnescapeLoop(data, <<>>)

EncodingInit ==
    [phase |-> "idle", s |-> <<>>, size |-> 0, d |-> <<>>, back |-> <<>>]

\* ------------------------------------------------------------------------
\* echttp.c: echttp_current and echttp_stacked while the callbacks of the
\* application run.  A context is the number of its slot, -1 the null
\* pointer; running is the callback that runs ("": none, control is in the
\* reactor), and opens counts the calls of echttp_client that were not yet
\* followed by one of echttp_submit.  The rest is history: in which
\* callback the last echttp_submit was made, and which callback returned
\* last.

CallbackInit ==
    [running |-> "", current |-> -1, stacked |-> -1, opens |-> 0,
     submitted |-> "", returned |-> ""]

\* echttp_execute and echttp_execute_async before echttp_execute_protect.
CallbackExecute(K, context) ==
    [K EXCEPT !.running = "protect", !.current = context]

\* The protect callbacks returned: the request is refused, or the handler
\* of the route is called.
CallbackProtected(K, passed, handler) ==
    IF passed THEN [K EXCEPT !.running = handler, !.returned = "protect"]
    ELSE [K EXCEPT !.running = "", !.current = -1, !.returned = "protect"]

\* echttp_respond and echttp_respond_async before the callback.
CallbackRespond(K, context) ==
    [K EXCEPT !.running = "response", !.current = context]

\* The handler or the response callback returned.
CallbackReturned(K) ==
    [K EXCEPT !.running = "", !.current = -1, !.returned = K.running]

\* echttp_client once the client has its slot.
CallbackClient(K, client) ==
    [K EXCEPT !.stacked = K.current, !.current = client, !.opens = @ + 1]

\* echttp_redirected when the Location is followed.
CallbackRedirected(K, client) ==
    [CallbackClient(K, client) EXCEPT !.stacked = K.stacked]

CallbackSubmitKept(K) ==
    [K EXCEPT !.stacked = -1, !.opens = @ - 1, !.submitted = K.running]

\* echttp_submit.
CallbackSubmit(K) ==
    [K EXCEPT !.current = K.stacked, !.stacked = -1, !.opens = @ - 1,
              !.submitted = K.running]

\* ------------------------------------------------------------------------
\* echttp_sorted.c: a sorted list is a tree of buckets, one level per digit
\* of the key, the last level pointing to the lists of the items of one
\* key.  A node is absent (the null pointer), a bucket, or the head of a
\* list with the leaves it links: a leaf is known by a number, 0 the null
\* pointer.

NoNode == [kind |-> "none"]

echttp_sorted_new_bucket(depth) ==
    [kind |-> "bucket", depth |-> depth,
     index |-> [i \in 0 .. (SortedRadix - 1) |-> NoNode]]

echttp_sorted_new_leaf(data) == [prev |-> 0, next |-> 0, data |-> data]

\* The head of a list, echttp_sorted_new_leaf(0), with no leaf allocated.
NoLeaves ==
    [kind |-> "leaf", prev |-> 0, next |-> 0, cell |-> <<>>]

\* malloc: a leaf that is not allocated.
NewLeaf(l) ==
    LET free == {k \in 1 .. (Cardinality(DOMAIN l.cell) + 1) :
                    k \notin DOMAIN l.cell}
    IN  CHOOSE k \in free : \A j \in free : k <= j

\* A variant of echttp_sorted_add_leaf that links the leaf first.
AddLeafFirst(l, data) ==
    LET id == NewLeaf(l)
        leaf == [echttp_sorted_new_leaf(data) EXCEPT !.next = l.prev]
        cell == IF l.prev # 0 THEN [l.cell EXCEPT ![l.prev].prev = id]
                ELSE l.cell
    IN  [l EXCEPT !.next = IF l.prev # 0 THEN l.next ELSE id,
                  !.prev = id,
                  !.cell = cell @@ (id :> leaf)]

echttp_sorted_add_leaf(l, data) ==
    LET id == NewLeaf(l)
        leaf == [echttp_sorted_new_leaf(data) EXCEPT !.prev = l.next]
        cell == IF l.next # 0 THEN [l.cell EXCEPT ![l.next].next = id]
                ELSE l.cell
    IN  [l EXCEPT !.prev = IF l.next # 0 THEN l.prev ELSE id,
                  !.next = id,
                  !.cell = cell @@ (id :> leaf)]

\* (key >> (8*(7-depth))) & 0xff, for digits of SortedRadix values.
SortedHash(key, depth) ==
    (key \div (SortedRadix ^ (SortedLevels - 1 - depth))) % SortedRadix

RECURSIVE echttp_sorted_add(_, _, _)
echttp_sorted_add(b, key, data) ==
    LET hash == SortedHash(key, b.depth)
    IN  IF b.depth >= SortedLevels - 1
        THEN [b EXCEPT !.index[hash] =
                 echttp_sorted_add_leaf(
                     IF b.index[hash].kind = "none" THEN NoLeaves
                     ELSE b.index[hash], data)]
        ELSE [b EXCEPT !.index[hash] =
                 echttp_sorted_add(
                     IF b.index[hash].kind = "none"
                     THEN echttp_sorted_new_bucket(b.depth + 1)
                     ELSE b.index[hash], key, data)]

\* A variant of echttp_sorted_bucket_empty that finds no bucket empty.
BucketNeverEmpty(b) == FALSE

echttp_sorted_bucket_empty(b) ==
    \A i \in 0 .. (SortedRadix - 1) : b.index[i].kind = "none"

\* The search of echttp_sorted_remove in the list of a key.
RECURSIVE SortedFind(_, _, _)
SortedFind(l, cursor, data) ==
    IF cursor = 0 THEN 0
    ELSE IF l.cell[cursor].data = data THEN cursor
    ELSE SortedFind(l, l.cell[cursor].next, data)

\* The leaf is unlinked and freed.
SortedUnlink(l, cursor) ==
    LET c == l.cell[cursor]
        cell1 == IF c.prev # 0 THEN [l.cell EXCEPT ![c.prev].next = c.next]
                 ELSE l.cell
        cell2 == IF c.next # 0 THEN [cell1 EXCEPT ![c.next].prev = c.prev]
                 ELSE cell1
    IN  [l EXCEPT !.prev = IF c.prev # 0 THEN l.prev ELSE c.next,
                  !.next = IF c.next # 0 THEN l.next ELSE c.prev,
                  !.cell = [i \in (DOMAIN cell2) \ {cursor} |-> cell2[i]]]

\* echttp_sorted_remove below the bucket b: what b becomes, and whether it
\* was freed, which the list itself (depth 0) never is.
RECURSIVE SortedRemove(_, _, _)
SortedRemove(b, key, data) ==
    LET hash == SortedHash(key, b.depth)
        same == [node |-> b, freed |-> FALSE]
        Pruned(bucket) ==
            IF b.depth > 0 /\ echttp_sorted_bucket_empty(bucket)
            THEN [node |-> NoNode, freed |-> TRUE]
            ELSE [node |-> bucket, freed |-> FALSE]
    IN  IF b.index[hash].kind = "none" THEN same
        ELSE IF b.depth >= SortedLevels - 1
        THEN LET leaf == b.index[hash]
                 cursor == SortedFind(leaf, leaf.prev, data)
                 left == SortedUnlink(leaf, cursor)
             IN  IF cursor = 0 THEN same
                 ELSE IF left.prev # 0 \/ left.next # 0
                 THEN [node |-> [b EXCEPT !.index[hash] = left], freed |-> FALSE]
                 ELSE Pruned([b EXCEPT !.index[hash] = NoNode])
        ELSE LET below == SortedRemove(b.index[hash], key, data)
             IN  IF below.freed
                 THEN Pruned([b EXCEPT !.index[hash] = NoNode])
                 ELSE [node |-> [b EXCEPT !.index[hash] = below.node],
                       freed |-> FALSE]

echttp_sorted_remove(b, key, data) == SortedRemove(b, key, data).node

\* The iterators with an action that never stops the walk: the data the
\* action is given, in the order of the calls.
RECURSIVE echttp_sorted_ascend_leaf(_, _)
echttp_sorted_ascend_leaf(l, cursor) ==
    IF cursor = 0 THEN <<>>
    ELSE <<l.cell[cursor].data>>
         \o echttp_sorted_ascend_leaf(l, l.cell[cursor].next)

RECURSIVE echttp_sorted_descend_leaf(_, _)
echttp_sorted_descend_leaf(l, cursor) ==
    IF cursor = 0 THEN <<>>
    ELSE <<l.cell[cursor].data>>
         \o echttp_sorted_descend_leaf(l, l.cell[cursor].prev)

RECURSIVE echttp_sorted_ascending(_)
RECURSIVE SortedAscendingFrom(_, _)
SortedAscendingFrom(b, i) ==
    IF i >= SortedRadix THEN <<>>
    ELSE (IF b.depth = SortedLevels - 1
          THEN IF b.index[i].kind = "none" THEN <<>>
               ELSE echttp_sorted_ascend_leaf(b.index[i], b.index[i].prev)
          ELSE echttp_sorted_ascending(b.index[i]))
         \o SortedAscendingFrom(b, i + 1)

echttp_sorted_ascending(b) ==
    IF b.kind = "none" THEN <<>> ELSE SortedAscendingFrom(b, 0)

RECURSIVE echttp_sorted_descending(_)
RECURSIVE SortedDescendingFrom(_, _)
SortedDescendingFrom(b, i) ==
    IF i < 0 THEN <<>>
    ELSE (IF b.depth = SortedLevels - 1
          THEN IF b.index[i].kind = "none" THEN <<>>
               ELSE echttp_sorted_descend_leaf(b.index[i], b.index[i].next)
          ELSE echttp_sorted_descending(b.index[i]))
         \o SortedDescendingFrom(b, i - 1)

echttp_sorted_descending(b) ==
    IF b.kind = "none" THEN <<>> ELSE SortedDescendingFrom(b, SortedRadix - 1)

\* echttp_sorted_audit: the buckets and the items that are allocated, the
\* items of a list counted from its last leaf.
RECURSIVE echttp_sorted_audit(_)
RECURSIVE SortedAuditFrom(_, _)
SortedAuditFrom(b, i) ==
    LET rest == SortedAuditFrom(b, i - 1)
        sub == echttp_sorted_audit(b.index[i])
    IN  IF i < 0 THEN [buckets |-> 1, items |-> 0]
        ELSE IF b.depth = SortedLevels - 1
        THEN IF b.index[i].kind = "none" THEN rest
             ELSE [rest EXCEPT !.items =
                      @ + Len(echttp_sorted_descend_leaf(b.index[i],
                                                         b.index[i].next))]
        ELSE [buckets |-> rest.buckets + sub.buckets,
              items |-> rest.items + sub.items]

echttp_sorted_audit(b) ==
    IF b.kind = "none" THEN [buckets |-> 0, items |-> 0]
    ELSE SortedAuditFrom(b, SortedRadix - 1)

\* echttp_sorted_new, with what the list was given and still holds, in the
\* order it was added (items), whether an item was removed, and what the
\* two iterators visited and what echttp_sorted_audit counted when they
\* last walked the list as it is.
SortedInit ==
    [list |-> echttp_sorted_new_bucket(0), items |-> <<>>, removed |-> FALSE,
     walked |-> FALSE, up |-> <<>>, down |-> <<>>,
     audit |-> [buckets |-> 0, items |-> 0]]

\* ------------------------------------------------------------------------
\* echttp_hash.c: an index where a key may appear more than once.  A name
\* is a sequence of the characters '/', 'a' and 'A', NullUri the null
\* pointer.

HashNames == {<<"a">>, <<"A">>, <<"/">>}

HashInit ==
    [count |-> 0, index |-> [h \in 0 .. (ECHTTP_HASH - 1) |-> 0], item |-> <<>>]

\* strcasecmp(a, b) == 0 on these names.
HashSameName(a, b) ==
    LET lower(c) == IF c = "A" THEN "a" ELSE c
    IN  /\ Len(a) = Len(b)
        /\ \A k \in 1 .. Len(a) : lower(a[k]) = lower(b[k])

RECURSIVE echttp_hash_forage(_, _, _, _)
echttp_hash_forage(d, start, name, signature) ==
    IF start <= 0 THEN 0
    ELSE IF /\ d.item[start].signature = signature
            /\ HashSameName(name, d.item[start].name)
         THEN start
         ELSE echttp_hash_forage(d, d.item[start].next, name, signature)

echttp_hash_find(d, name) ==
    echttp_hash_forage(d, d.index[HashIndex(echttp_hash_signature(name))],
                       name, echttp_hash_signature(name))

echttp_hash_next(d, from, name) ==
    IF from <= 0 THEN 0
    ELSE echttp_hash_forage(d, d.item[from].next, name, d.item[from].signature)

echttp_hash_add(d, name) ==
    LET signature == echttp_hash_signature(name)
        hash == HashIndex(signature)
        index == d.count + 1
    IN  IF index >= MaxSymbol THEN d
        ELSE [count |-> index,
              index |-> [d.index EXCEPT ![hash] = index],
              item  |-> Append(d.item, [name |-> name, value |-> 0,
                                        signature |-> signature,
                                        next |-> d.index[hash]])]

\* echttp_hash_iterate with an action that returns non zero for the items
\* of stop: the items the action was called for, in the order of the calls,
\* and the value returned.
RECURSIVE HashIterateAll(_, _, _, _)
HashIterateAll(d, i, stop, calls) ==
    IF ~(i < d.count) THEN [calls |-> calls, result |-> 0]
    ELSE IF i \in stop THEN [calls |-> Append(calls, i), result |-> i]
    ELSE HashIterateAll(d, i + 1, stop, Append(calls, i))

RECURSIVE HashIterateName(_, _, _, _, _)
HashIterateName(d, i, name, stop, calls) ==
    IF ~(i > 0) THEN [calls |-> calls, result |-> 0]
    ELSE IF i \in stop THEN [calls |-> Append(calls, i), result |-> i]
    ELSE HashIterateName(d, echttp_hash_next(d, i, name), name, stop,
                         Append(calls, i))

echttp_hash_iterate(d, name, stop) ==
    IF name = NullUri THEN HashIterateAll(d, 1, stop, <<>>)
    ELSE HashIterateName(d, echttp_hash_find(d, name), name, stop, <<>>)

\* The index, and its last iteration: the name and the items where the
\* action stops, the calls of the action and the value returned.
HashedInit ==
    [d |-> HashInit, iterated |-> FALSE, name |-> NullUri, stop |-> {},
     calls |-> <<>>, result |-> 0]

\* ------------------------------------------------------------------------
\* echttp_raw.c: one plain connection that the application sends data to
\* while the loop writes to its socket.  Every unit sent is distinct: unit k
\* of call n is Tok("D", n, k, 0).
\*   raw    the echttp_raw_io entry of the connection
\*   sends  the number of calls of echttp_raw_send made
\*   sent   the units given to echttp_raw_send, in the order of the calls
\*   wire   the units written to the socket, in the order of the writes
\*   behind whether a call of echttp_raw_send found the inline buffer empty
\*          and the overflow queue not empty

SendData(n, length) == [k \in 1 .. length |-> Tok("D", n, k, 0)]

PipedInit ==
    [raw |-> echttp_raw_io_new(ECHTTP_RAW_TCP, 3), sends |-> 0,
     sent |-> <<>>, wire |-> <<>>, behind |-> FALSE]

\* ------------------------------------------------------------------------
\* echttp.c: the content of one message received through an incoming
\* transfer.  The content units are numbered in the order the peer sent them.
\*   S        the slot of the connection
\*   side     "server" for a request on an asynchronous route, "client" for
\*            the response to a request with an asynchronous callback
\*   total    the content length the message announces
\*   given    the content units that came with the header block
\*   arrived  the content units received so far
\*   last     the last call of echttp_received: whether it found an incoming
\*            transfer to write to, the size left to transfer and the units
\*            buffered then, what write() was asked and what it returned
\*   partial  whether a write() returned less than asked, and more than 0

ContentUnit(n) == Tok("B", 1, n, 0)

\* The file the asynchronous callback of message 1 gives to echttp_transfer.
IncomingFd == 10 * 1 + 9

NoWrite == [called |-> FALSE, left |-> 0, buffered |-> 0, want |-> 0, size |-> 0]

IncomingInit ==
    [S |-> [raw |-> echttp_raw_io_new(ECHTTP_RAW_TCP, 3), ctx |-> ContextInit,
            gh |-> GhostInit],
     side |-> "", total |-> 0, given |-> 0, arrived |-> 0, last |-> NoWrite,
     partial |-> FALSE]

\* ------------------------------------------------------------------------
\* echttp_tls.c: the input buffer of one TLS client (registered->in).  The
\* bytes SSL_read returns are numbered in the order of their arrival.  A
\* cell of the buffer holds one of them, the zero that ends the string, or
\* what malloc left there (any byte, chosen when the cell is first exposed).
\*   in      the buffer: its cells, start and end
\*   open    whether the client is attached
\*   count   the bytes read so far on this connection
\*   due     the bytes read and not yet consumed, in the order of arrival,
\*           before the last call of the receiver
\*   shown   what the receiver was given by that call
\*   expect  the bytes read and not yet consumed
\*   ret     what echttp_tls_receive returned

TlsCells == 1 .. TlsBufferSize
TlsUnset == Tok("U", 0, 0, 0)
TlsZero == Tok("0", 0, 0, 0)
TlsUnit(n) == Tok("B", 1, n, 0)
TlsIndeterminate == {Tok("?", 0, 0, 0), TlsUnit(1)}

RegisteredInit ==
    [in |-> [data |-> [k \in TlsCells |-> TlsUnset], start |-> 0, end |-> 0],
     open |-> FALSE, count |-> 0, due |-> <<>>, shown |-> <<>>,
     expect |-> <<>>, ret |-> 0]

\* sizeof(in.data) - in.end - 1: what SSL_read is allowed to store.
TlsAvailable(in) == TlsBufferSize - in.end - 1

\* SSL_read stores units at cursor = in.data + in.start, then end is moved
\* and the string is ended with a zero.  A cell between the old end and the
\* new one that was never written holds junk.
TlsStore(in, units, junk) ==
    [in EXCEPT
        !.data = [k \in TlsCells |->
                     IF k = in.end + Len(units) + 1 THEN TlsZero
                     ELSE IF k > in.start /\ k <= in.start + Len(units)
                     THEN units[k - in.start]
                     ELSE IF /\ k > in.end /\ k <= in.end + Len(units)
                             /\ in.data[k] = TlsUnset
                     THEN junk
                     ELSE in.data[k]],
        !.end = in.end + Len(units)]

\* What the receiver is given: in.data + in.start, end - start bytes.
TlsPending(in) == [k \in 1 .. (in.end - in.start) |-> in.data[in.start + k]]

echttp_tls_consume(in, length) ==
    IF in.start + length >= in.end
    THEN [in EXCEPT !.start = 0, !.end = 0]
    ELSE [in EXCEPT !.start = in.start + length]

\* echttp_tls_receive with pending idle: o is what SSL_get_error reports,
\* units what SSL_read returned, taken what the receiver returns.
TlsReceived(G, o, units, junk, taken) ==
    IF TlsAvailable(G.in) <= 0 THEN [G EXCEPT !.ret = -1]
    ELSE IF o = "NONE"
    THEN [G EXCEPT !.in = echttp_tls_consume(TlsStore(G.in, units, junk), taken),
                   !.count = @ + Len(units),
                   !.due = G.expect \o units,
                   !.shown = TlsPending(TlsStore(G.in, units, junk)),
                   !.expect = SubSeq(G.expect \o units, taken + 1,
                                     Len(G.expect) + Len(units)),
                   !.ret = 1]
    ELSE IF o = "WANT_READ" THEN [G EXCEPT !.ret = 1]
    ELSE IF o = "WANT_WRITE" THEN [G EXCEPT !.ret = 2]
    ELSE [G EXCEPT !.in.start = 0, !.in.end = 0, !.ret = -1]

\* ------------------------------------------------------------------------
\* The table of slots and the environment.

VARIABLES
    echttp_raw_io,      \* the slots of echttp_raw.c
    echttp_context,     \* the request contexts of echttp.c, one per slot
    ghost,              \* the history of each slot
    net,                \* for each slot, the units its peer has still to deliver
    now,                \* the value of time(0)
    LastDeadlineCheck,  \* the static variable of echttp_raw_prune
    connections,        \* the number of connections made so far
    last,               \* the successful send() or recv() of the last step
    echttp_current,     \* the slot of the current request context (-1: null)
    echttp_stacked,     \* the slot of the context echttp_client saved (-1: null)
    frame,              \* the history of the handler being run (see NoFrame)
    echttp_routing,     \* the table of routes of echttp.c
    found,              \* the last route lookup: the uri and the result
    request,            \* what was done with the last request line
    chunked,            \* what was done with the last chunked content
    pool,               \* the pool of echttp_raw.c with its application fds
    echttp_tls_clients, \* the TLS client of echttp_tls.c that is followed
    catalog,            \* a catalog of echttp_catalog.c with what was set
    encoding,           \* a string, its escaped form and what is decoded
    callback,           \* echttp_current while the application is called
    sorted,             \* a sorted list of echttp_sorted.c with its items
    hashed,             \* an index of echttp_hash.c and its last iteration
    piped,              \* one plain connection, what was given to it and what it wrote
    incoming,           \* one connection whose content goes to an incoming transfer
    registered          \* the input buffer of one TLS client and what went through it

\* The variables of the reactor, and those of the functions that are
\* examined on their own.
reactor == <<echttp_raw_io, echttp_context, ghost, net, now, LastDeadlineCheck,
             connections, last, echttp_current, echttp_stacked, frame>>

parsing == <<echttp_routing, found, request, chunked>>

library == <<catalog, encoding, callback, sorted, hashed, piped, incoming, registered>>

added == <<pool, echttp_tls_clients, library>>

functions == <<parsing, added>>

vars == <<reactor, functions>>

\* What is known of the route handler being run: the slot it was called for
\* (-1: no handler is running), whether a client request it opened with
\* echttp_client waits for its echttp_submit, its last call, the current
\* context before its last echttp_client call, and the attributes and the
\* status it set for its own response (outside of a client request).
NoFrame ==
    [handler |-> -1, pending |-> FALSE, op |-> "", was |-> -1,
     enclosing |-> <<>>, status |-> 0, submitted |-> FALSE, failed |-> FALSE]

Slot(i) == [raw |-> echttp_raw_io[i], ctx |-> echttp_context[i], gh |-> ghost[i]]
Table == [i \in Slots |-> Slot(i)]

FreeSlot(T) == echttp_raw_io_free([i \in Slots |-> T[i].raw])

NoOperation == [op |-> "", slot |-> -1]

\* The file descriptor of the next socket.
NextSocket == 3 + connections

\* What a peer sends on a connection it opened: up to MaxRequests requests,
\* each a header block followed by the content it announces.
RequestUnits(r, length, route, keep) ==
    <<RequestHeader(r, length, route, keep)>> \o Rep(length, Tok("B", r, 0, 0))

RECURSIVE RequestStreams(_, _)
RequestStreams(r, keep) ==
    LET one == {RequestUnits(r, length, route, keep) :
                    length \in 0 .. MaxContent, route \in {1, -1}}
    IN  IF r >= MaxRequests THEN one
        ELSE one \cup {a \o b : a \in one, b \in RequestStreams(r + 1, keep)}

\* What a server answers to a client request: a status line that is not
\* HTTP (x = 0), or a status, with or without Location, and the content.
ResponseUnits(r, status, location, length) ==
    <<[k |-> "H", r |-> r, v |-> length, x |-> status, y |-> location]>>
    \o Rep(length, Tok("B", r, 0, 0))

Replies(r) ==
    {ResponseUnits(r, 200, 0, length) : length \in 0 .. MaxContent}
    \cup {ResponseUnits(r, 0, 0, 0), ResponseUnits(r, 302, 0, 0)}
    \cup (IF r < MaxRequests THEN {ResponseUnits(r, 302, 1, 0)} ELSE {})

\* The attributes an application sets on a client request.
AttributeSets == {<<>>, <<2>>, <<2, 3>>}

\* The slot of a client request made by the response callback of slot i
\* (echttp_redirected, then echttp_submit with the same callback and origin).
Redirected(T, i, got, free, fd) ==
    echttp_submit([echttp_client(T[free], fd) EXCEPT
                      !.ctx.out = echttp_copy_attributes(got.spawn.out, @),
                      !.gh.headers = got.S.gh.headers,
                      !.gh.answers = got.S.gh.answers,
                      !.gh.hops = got.S.gh.hops + 1],
                  got.S.gh.hops + 2, 0, got.spawn.response, got.spawn.origin)

\* The table after an input operation on slot i returned got.
Settle(T, i, got, free, fd, time) ==
    IF got.spawn = NoSpawn \/ free < 0 THEN [T EXCEPT ![i] = got.S]
    ELSE [T EXCEPT ![i] = got.S,
                   ![free] = [Redirected(T, i, got, free, fd) EXCEPT
                                 !.gh.active = time]]

\* The assignment of the variables that hold the table.
Commit(T) ==
    /\ echttp_raw_io' = [i \in Slots |-> T[i].raw]
    /\ echttp_context' = [i \in Slots |-> T[i].ctx]
    /\ ghost' = [i \in Slots |-> T[i].gh]

\* The units in flight after a step: none for a closed slot, reply for the
\* slot of a new client request.
Flight(T, old, reply) ==
    [i \in Slots |->
        IF T[i].raw.fd < 0 THEN <<>>
        ELSE IF T[i].raw.fd # echttp_raw_io[i].fd THEN reply
        ELSE old[i]]

Connected(T) ==
    connections + Cardinality({i \in Slots : /\ T[i].raw.fd >= 0
                                             /\ T[i].raw.fd # echttp_raw_io[i].fd})

\* ------------------------------------------------------------------------
\* echttp_raw_loop.  One step of the model is one iteration of the loop: the
\* fd sets are built (a slot without output is given its buffered input
\* again), select() returns, the event it reported is served, and
\* echttp_raw_prune is called.  select() reports one event at a time here.

Init ==
    /\ echttp_raw_io = [i \in Slots |-> RawUnused]
    /\ echttp_context = [i \in Slots |-> ContextInit]
    /\ ghost = [i \in Slots |-> GhostInit]
    /\ net = [i \in Slots |-> <<>>]
    /\ now = 1
    /\ LastDeadlineCheck = 0
    /\ connections = 0
    /\ last = NoOperation
    /\ echttp_current = -1
    /\ echttp_stacked = -1
    /\ frame = NoFrame
    /\ echttp_routing = RoutingInit
    /\ found = NoLookup
    /\ request = NoRequest
    /\ chunked = NoChunked
    /\ pool = PoolInit
    /\ echttp_tls_clients = TlsInit
    /\ catalog = CatalogStart
    /\ encoding = EncodingInit
    /\ callback = CallbackInit
    /\ sorted = SortedInit
    /\ hashed = HashedInit
    /\ piped = PipedInit
    /\ incoming = IncomingInit
    /\ registered = RegisteredInit

\* The seconds that may pass during one select().
Ticks == IF now < MaxTime THEN {0, 1} ELSE {0}

NoPlan ==
    [gprotect |-> 200, rprotect |-> 200, transfers |-> <<>>, queue |-> <<>>,
     status |-> 200, body |-> 0, async |-> "none", write |-> WriteAll]

\* The first loop of an iteration, over the slots in order: a slot with
\* output left is watched for writing; any other is given its buffered input
\* again and, when nothing of it was consumed, watched for reading.  plan is
\* what the application does for a request executed here, next for the
\* request executed after it by the same call of echttp_received.
\* The slot i was given its buffered input and got is what came of it.
Fed(T, W, i, got, free) ==
    [T |-> Settle(T, i, got, free, NextSocket, now),
     W |-> [W EXCEPT ![i] = IF got.consumed = 0 /\ got.S.raw.fd >= 0
                            THEN "read" ELSE "none"]]

RECURSIVE Prepared(_, _, _, _)
Prepared(P, i, plan, next) ==
    IF i >= NSlots THEN P
    ELSE IF P.T[i].raw.use # ECHTTP_RAW_TCP
    THEN Prepared(P, i + 1, plan, next)
    ELSE IF RawPendingOutput(P.T[i].raw)
    THEN Prepared([P EXCEPT !.W[i] = "write"], i + 1, plan, next)
    ELSE Prepared(Fed(P.T, P.W, i,
                      echttp_raw_bufferedinput(P.T[i], FreeSlot(P.T), plan, next),
                      FreeSlot(P.T)),
                  i + 1, plan, next)

NoWatch == [i \in Slots |-> "none"]

\* The table and the fd sets select() is called with.
Watched(plans) == Prepared([T |-> Table, W |-> NoWatch], 0, plans[1], plans[2])

\* The slots the first loop gives their buffered input to, and the ones
\* whose next request waits for its content.
Buffered == {i \in Slots : /\ echttp_raw_io[i].use = ECHTTP_RAW_TCP
                           /\ ~RawPendingOutput(echttp_raw_io[i])
                           /\ Len(echttp_raw_io[i].in.data) > 0
                           /\ echttp_context[i].response = 0}

Readers == {i \in Slots : /\ echttp_raw_io[i].use = ECHTTP_RAW_TCP
                          /\ ~RawPendingOutput(echttp_raw_io[i])
                          /\ echttp_context[i].response = 0}

Waiting(set) == \E i \in set : echttp_context[i].state = ECHTTP_STATE_CONTENT

\* The routes of the requests the slots of set hold or are about to receive.
Routes(set) ==
    {echttp_context[i].route : i \in {j \in set : Waiting({j})}}
    \cup UNION {{echttp_raw_io[i].in.data[k].x :
                     k \in 1 .. Len(echttp_raw_io[i].in.data)} : i \in set}
    \cup UNION {{net[i][k].x : k \in 1 .. Len(net[i])} : i \in set}

\* What the callbacks of these routes may do.
RoutePlans(routes) ==
    IF 2 \in routes THEN AsynchronousPlans
    ELSE IF 3 \in routes THEN StatusPlans
    ELSE HandlerPlans

\* The plans that make a difference in an iteration where the slots of set
\* may execute requests.
Plans(set) ==
    IF set = {} THEN {<<NoPlan, NoPlan>>}
    ELSE IF Waiting(set)
    THEN RoutePlans(Routes(set)) \X RoutePlans(Routes(set))
    ELSE {<<p, p>> : p \in RoutePlans(Routes(set))}

\* echttp_raw_prune sparing every connection, and echttp_raw_prune sparing
\* only the connections with a file transfer.
PruneExemptAll(raw) == raw.use = ECHTTP_RAW_TCP

PruneExemptTransfer(raw) ==
    /\ raw.use = ECHTTP_RAW_TCP
    /\ raw.transfer.size > 0

PruneExempt(raw) ==
    /\ raw.use = ECHTTP_RAW_TCP
    /\ \/ raw.transfer.size > 0
       \/ Len(raw.next) > 0
       \/ Len(raw.out.data) > 0

echttp_raw_prune(T, time) ==
    IF LastDeadlineCheck = time THEN T
    ELSE [i \in Slots |->
             IF /\ T[i].raw.deadline # 0
                /\ time > T[i].raw.deadline
                /\ ~PruneExempt(T[i].raw)
             THEN echttp_raw_close_client(T[i], "deadline reached")
             ELSE T[i]]

\* The end of an iteration: T is the table after the event was served at
\* time, left what the peers have still to deliver, reply what the peer of a
\* new client request is going to answer.
Pruned(T, pruned, time, left, reply, operation) ==
    /\ Commit(pruned)
    /\ net' = Flight(pruned, left, reply)
    /\ connections' = Connected(T)
    /\ now' = time
    /\ LastDeadlineCheck' = time
    /\ last' = operation
    /\ UNCHANGED <<functions, echttp_current, echttp_stacked, frame>>

Finish(T, time, left, reply, operation) ==
    Pruned(T, echttp_raw_prune(T, time), time, left, reply, operation)

\* The application makes a client request (from its background callback):
\* echttp_client, echttp_attribute_set for each attribute, echttp_submit.
Requested(T, free, reply) ==
    /\ Commit(T)
    /\ net' = Flight(T, net, reply)
    /\ connections' = Connected(T)

ClientRequest ==
    /\ connections = 0
    /\ FreeSlot(Table) >= 0
    /\ \E attributes \in AttributeSets, response \in {1, 2},
          length \in 0 .. MaxContent, reply \in Replies(1) :
          Requested([Table EXCEPT ![FreeSlot(Table)] =
                        echttp_submit(
                            [echttp_client(Table[FreeSlot(Table)], NextSocket)
                                EXCEPT !.ctx.out = attributes,
                                       !.gh.headers = attributes,
                                       !.gh.active = now],
                            1, length, response, 1)],
                    FreeSlot(Table), reply)
    /\ last' = NoOperation
    /\ UNCHANGED <<functions, now, LastDeadlineCheck, echttp_current, echttp_stacked, frame>>

\* select() returned 0.
Timeout ==
    \E d \in Ticks, plans \in Plans(Buffered) :
        Finish(Watched(plans).T, now + d, net, <<>>, NoOperation)

\* select() reported the socket of slot i as writable.
Transmitted(P, i, time) ==
    /\ P.W[i] = "write"
    /\ P.T[i].raw.use = ECHTTP_RAW_TCP
    /\ \E result \in -1 .. TransmitLength(P.T[i].raw) :
          Finish([P.T EXCEPT ![i] = echttp_raw_transmit(P.T[i], result, time)],
                 time, net, <<>>,
                 IF result > 0 THEN [op |-> "send", slot |-> i]
                 ELSE NoOperation)

Transmit ==
    \E i \in Slots, d \in Ticks, plans \in Plans(Buffered) :
        Transmitted(Watched(plans), i, now + d)

\* select() reported the socket of slot i as readable: recv() returns some
\* of the units in flight, or reports an error or the end of the stream.
Received(P, i, time, plans) ==
    /\ P.W[i] = "read"
    /\ P.T[i].raw.use = ECHTTP_RAW_TCP
    /\ \E n \in 0 .. Min(Len(net[i]), ReceiveRoom(P.T[i].raw) - 1) :
       \E reply \in (IF P.T[i].ctx.response # 0
                     THEN Replies(P.T[i].gh.hops + 2) ELSE {<<>>}) :
          Finish(Settle(P.T, i,
                        echttp_raw_receive(P.T[i], SubSeq(net[i], 1, n), time,
                                           FreeSlot(P.T), plans[1], plans[2]),
                        FreeSlot(P.T), NextSocket, time),
                 time, [net EXCEPT ![i] = SubSeq(@, n + 1, Len(@))], reply,
                 IF n > 0 THEN [op |-> "recv", slot |-> i] ELSE NoOperation)

Receive ==
    \E i \in Slots, d \in Ticks, plans \in Plans(Readers) :
        Received(Watched(plans), i, now + d, plans)

\* echttp_raw_accept, with echttp_newclient as the acceptor.
echttp_raw_accept(T, i, fd, time) ==
    IF i < 0 THEN T
    ELSE [T EXCEPT ![i] =
             [raw |-> [echttp_raw_io_new(ECHTTP_RAW_TCP, fd) EXCEPT
                          !.deadline = time + Ttl],
              ctx |-> echttp_newclient(T[i].ctx),
              gh  |-> [GhostInit EXCEPT !.active = time]]]

\* select() reported the listening socket as readable: a peer connected,
\* stream is what it is going to send.
Accepted(T, time, stream) ==
    Finish(echttp_raw_accept(T, FreeSlot(T), NextSocket, time),
           time, net, stream, NoOperation)

Accept ==
    /\ connections = 0
    /\ \E d \in Ticks, keep \in {0, 1} :
       \E stream \in RequestStreams(1, keep) :
          Accepted(Watched(<<NoPlan, NoPlan>>).T, now + d, stream)

Next ==
    \/ ClientRequest
    \/ Timeout
    \/ Transmit
    \/ Receive
    \/ Accept

Spec == Init /\ [][Next]_vars

\* ------------------------------------------------------------------------
\* The same server with peers that use the other routes: a request for the
\* asynchronous route with content, followed or not by a plain request; a
\* request for the route that redirects or fails; a request that announces
\* more content than the input buffer can hold.

Oversize == ClientBufferSize - 1

RouteStreams(keep) ==
    {RequestUnits(1, MaxContent, 2, keep),
     RequestUnits(1, MaxContent, 2, keep) \o RequestUnits(2, 0, 2, keep),
     RequestUnits(1, 0, 3, keep),
     RequestUnits(1, Oversize, 1, keep)}

AcceptRoutes ==
    /\ connections = 0
    /\ \E d \in Ticks, keep \in {0, 1} :
       \E stream \in RouteStreams(keep) :
          Accepted(Watched(<<NoPlan, NoPlan>>).T, now + d, stream)

NextRoutes ==
    \/ AcceptRoutes
    \/ Timeout
    \/ Transmit
    \/ Receive

SpecRoutes == Init /\ [][NextRoutes]_vars

\* ------------------------------------------------------------------------
\* The current request context.  One step here is one call the application
\* makes from a route handler: echttp_execute sets echttp_current before it
\* calls the handler and clears it when the handler returned.

\* A peer connects: it sends one request without content for route 1.
FrameAccept ==
    /\ connections = 0
    /\ \E d \in Ticks, keep \in {0, 1} :
          Accepted(Table, now + d, RequestUnits(1, 0, 1, keep))

\* echttp_received and echttp_execute up to the call of the handler, for the
\* header block h: the protect callbacks accept the request.
Called(S, h) ==
    Call([echttp_execute_protect(
              [S EXCEPT !.ctx.uri = h.r, !.ctx.route = h.x, !.ctx.in = h,
                        !.ctx.protected = 0, !.ctx.contentlength = h.v],
              h.r, NoPlan).S EXCEPT !.ctx.contentlengthout = 0],
         "handler", h.r, 200)

FrameExecute ==
    /\ echttp_current = -1
    /\ \E i \in Slots :
          /\ echttp_raw_io[i].use = ECHTTP_RAW_TCP
          /\ echttp_context[i].response = 0
          /\ Len(net[i]) > 0
          /\ Commit([Table EXCEPT ![i] = Called(Table[i], net[i][1])])
          /\ net' = [net EXCEPT ![i] = Tail(@)]
          /\ echttp_current' = i
          /\ frame' = [NoFrame EXCEPT !.handler = i]
          /\ last' = [op |-> "recv", slot |-> i]
    /\ UNCHANGED <<functions, now, LastDeadlineCheck, connections, echttp_stacked>>

\* What echttp_client saves in echttp_stacked, and a variant that saves
\* nothing.
StackedNothing(current) == -1

Stacked(current) == current

\* The handler calls echttp_attribute_set.
FrameAttribute ==
    /\ frame.handler >= 0
    /\ \E name \in {2, 3} :
          /\ echttp_context' =
                IF echttp_current < 0 THEN echttp_context
                ELSE [echttp_context EXCEPT
                         ![echttp_current].out = AttributeSet(@, name)]
          /\ frame' = [frame EXCEPT
                          !.op = "attribute",
                          !.enclosing = IF frame.pending THEN @
                                        ELSE AttributeSet(@, name)]
    /\ UNCHANGED <<functions, echttp_raw_io, ghost, net, now, LastDeadlineCheck,
                   connections, last, echttp_current, echttp_stacked>>

\* The handler calls echttp_error (404) or echttp_redirect (307) for its own
\* response.
FrameError ==
    /\ frame.handler >= 0
    /\ ~frame.pending
    /\ \E status \in {307, 404} :
          /\ echttp_context' =
                IF echttp_current < 0 THEN echttp_context
                ELSE [echttp_context EXCEPT
                         ![echttp_current] = StatusSet(@, status)]
          /\ frame' = [frame EXCEPT
                          !.op = "error", !.status = status,
                          !.enclosing = IF status = 307 THEN AttributeSet(@, 4)
                                        ELSE @]
    /\ UNCHANGED <<functions, echttp_raw_io, ghost, net, now, LastDeadlineCheck,
                   connections, last, echttp_current, echttp_stacked>>

\* The handler calls echttp_client, which obtains a slot.
FrameClient ==
    /\ frame.handler >= 0
    /\ ~frame.pending
    /\ FreeSlot(Table) >= 0
    /\ Requested([Table EXCEPT ![FreeSlot(Table)] =
                     [echttp_client(Table[FreeSlot(Table)], NextSocket)
                         EXCEPT !.gh.active = now]],
                 FreeSlot(Table), <<>>)
    /\ echttp_stacked' = Stacked(echttp_current)
    /\ echttp_current' = FreeSlot(Table)
    /\ frame' = [frame EXCEPT !.op = "client", !.pending = TRUE,
                              !.was = echttp_current]
    /\ UNCHANGED <<functions, now, LastDeadlineCheck, last>>

\* The ways echttp_client fails: the url is neither http nor https, no
\* connection could be made, or echttp_raw_manage found no free slot.
FrameClientFailed ==
    /\ frame.handler >= 0
    /\ \E reason \in {"unsupported", "connection failed"}
                      \cup (IF FreeSlot(Table) < 0
                            THEN {"no more client context"} ELSE {}) :
          frame' = [frame EXCEPT !.op = reason, !.was = echttp_current,
                                 !.failed = TRUE]
    /\ UNCHANGED <<functions, echttp_raw_io, echttp_context, ghost, net, now,
                   LastDeadlineCheck, connections, last, echttp_current,
                   echttp_stacked>>

\* The handler calls echttp_submit for the client request it opened.
FrameSubmit ==
    /\ frame.pending
    /\ echttp_current >= 0
    /\ \E length \in 0 .. MaxContent, response \in {1, 2} :
          Commit([Table EXCEPT ![echttp_current] =
                     echttp_submit(@, 1, length, response, 1)])
    /\ echttp_current' = echttp_stacked
    /\ echttp_stacked' = -1
    /\ frame' = [frame EXCEPT !.op = "submit", !.pending = FALSE,
                              !.submitted = TRUE]
    /\ UNCHANGED <<functions, net, now, LastDeadlineCheck, connections, last>>

\* The handler returns: the end of echttp_execute, where echttp_date sets
\* the Date attribute of the current context.
FrameReturn ==
    /\ frame.handler >= 0
    /\ ~frame.pending
    /\ \E body \in {0, 1} :
          Commit([(IF echttp_current < 0 THEN Table
                   ELSE [Table EXCEPT ![echttp_current].ctx.out =
                            AttributeSet(@, 1)])
                     EXCEPT ![frame.handler] =
                     ExecuteResponse(@, @.ctx.uri, [NoPlan EXCEPT !.body = body],
                                     @.ctx.in.y = 1)])
    /\ echttp_current' = -1
    /\ frame' = NoFrame
    /\ UNCHANGED <<functions, net, now, LastDeadlineCheck, connections, last,
                   echttp_stacked>>

NextFrame ==
    \/ FrameAccept
    \/ FrameExecute
    \/ FrameAttribute
    \/ FrameError
    \/ FrameClient
    \/ FrameClientFailed
    \/ FrameSubmit
    \/ FrameReturn

SpecFrame == Init /\ [][NextFrame]_vars

\* ------------------------------------------------------------------------
\* The routes: the application registers and removes routes, then requests
\* are received and a route is looked up for the uri of each.

RouteUris ==
    {<<"/">>, <<"/", "a">>, <<"/", "A">>, <<"/", "a", "/">>,
     <<"/", "a", "/", "a">>}

RECURSIVE Paths(_)
Paths(n) ==
    IF n = 0 THEN {<<>>}
    ELSE Paths(n - 1)
         \cup {Append(p, c) : p \in {q \in Paths(n - 1) : Len(q) = n - 1},
                              c \in {"/", "a"}}

RoutesLive(routing) ==
    {i \in 1 .. routing.count : routing.item[i].uri # NullUri}

RouteUri ==
    /\ found = NoLookup
    /\ Cardinality(RoutesLive(echttp_routing)) < MaxRoutes
    /\ \E uri \in RouteUris :
          echttp_routing' = echttp_route_add(echttp_routing, uri,
                                             ECHTTP_MATCH_EXACT)
    /\ UNCHANGED <<reactor, found, request, chunked, added>>

RouteMatch ==
    /\ found = NoLookup
    /\ Cardinality(RoutesLive(echttp_routing)) < MaxRoutes
    /\ \E uri \in RouteUris :
          echttp_routing' = echttp_route_add(echttp_routing, uri,
                                             ECHTTP_MATCH_PARENT)
    /\ UNCHANGED <<reactor, found, request, chunked, added>>

RouteRemove ==
    /\ found = NoLookup
    /\ \E uri \in RouteUris :
          echttp_routing' = echttp_route_remove(echttp_routing, uri)
    /\ UNCHANGED <<reactor, found, request, chunked, added>>

\* A lookup leaves the table as it is: one lookup is made for each table.
RouteLookup ==
    /\ found = NoLookup
    /\ \E uri \in Paths(MaxPath) \cup {<<"/", "A">>, <<"/", "A", "/", "a">>} :
       \E garbage \in (IF Len(uri) = 0 THEN {0, 1} ELSE {0}) :
          found' = [uri |-> uri, route |-> RouteOf(echttp_routing, uri, garbage)]
    /\ UNCHANGED <<reactor, echttp_routing, request, chunked, added>>

NextRouting ==
    \/ RouteUri
    \/ RouteMatch
    \/ RouteRemove
    \/ RouteLookup

SpecRouting == Init /\ [][NextRouting]_vars

\* ------------------------------------------------------------------------
\* The requests: a request line is received and decoded, or the chunked
\* content of a request whose header block was decoded.

\* The request lines received: a method, a target (a path, with or without
\* a query) and a version, or another number of words.
RequestLines ==
    LET methods == {<<"G">>, <<"G", "%">>}
        paths == {<<"/", "a">>, <<"/", ".", ".">>,
                  <<"/", "%", "2", "e", "%", "2", "e">>,
                  <<"/", "a", "%", "0", "0", "/", ".", ".">>,
                  <<"/", "a", "%">>, <<"/", ".", ".", "%", "2">>,
                  <<"/", "a", "%", "/", ".">>}
        queries == {<<"b", "=", "a">>, <<"b", "=", ".", ".">>,
                    <<"b", "=", "%">>, <<"b", "%">>,
                    <<"a", "=", "b", "&", "b", "=", "%", "a">>}
        targets == paths \cup {p \o <<"?">> \o q : p \in paths, q \in queries}
        more == {<<>>, <<" ", "H">>, <<" ", "H", " ", "H">>,
                 <<" ", "H", " ", "H", " ", "H">>,
                 <<" ", "H", " ", "H", " ", "H", " ", "H">>} \ {<<" ", "H">>}
    IN  {m \o <<" ">> \o u \o <<" ", "H">> : m \in methods, u \in targets}
        \cup {<<"G">>}
        \cup {<<"G", " ", "/", "a">> \o words : words \in more}

\* Each request is decoded on its own: what is done with one does not
\* depend on the requests before it.
RequestReceived ==
    /\ request = NoRequest
    /\ chunked = NoChunked
    /\ \E line \in RequestLines, luck \in {"crash", "continue"} :
          request' = RequestLine(line, luck)
    /\ UNCHANGED <<reactor, echttp_routing, found, chunked, added>>

\* What a peer sends for a content in chunks: each chunk (its size, of one
\* hexadecimal digit, with a leading 0 when wide), then the last chunk and
\* the empty line.
RECURSIVE ChunkedContent(_, _)
ChunkedContent(chunks, wide) ==
    IF Len(chunks) = 0 THEN <<"0", "CR", "LF", "CR", "LF">>
    ELSE (IF wide THEN <<"0">> ELSE <<>>) \o <<HexDigits[Len(chunks[1]) + 1]>>
         \o <<"CR", "LF">> \o chunks[1] \o <<"CR", "LF">>
         \o ChunkedContent(Tail(chunks), wide)

RECURSIVE ChunkLists(_)
ChunkLists(n) ==
    IF n = 0 THEN {<<>>}
    ELSE ChunkLists(n - 1)
         \cup {Append(list, chunk) :
                  list \in {l \in ChunkLists(n - 1) : Len(l) = n - 1},
                  chunk \in UNION {[1 .. k -> {"x", "LF", "1"}] :
                                      k \in 1 .. MaxChunk}}

ChunkedReceived ==
    /\ request = NoRequest
    /\ chunked = NoChunked
    /\ \E chunks \in ChunkLists(MaxChunks), wide \in BOOLEAN :
          chunked' = ChunkLoop(chunks, ChunkedContent(chunks, wide), 1, 1, 0)
    /\ UNCHANGED <<reactor, echttp_routing, found, request, added>>

NextRequest ==
    \/ RequestReceived
    \/ ChunkedReceived

SpecRequest == Init /\ [][NextRequest]_vars

\* ------------------------------------------------------------------------
\* The pool on its own: the application registers and forgets its fds, opens
\* client connections and closes the server from its callbacks (or before
\* the loop has started), peers connect, connections are closed, and the
\* loop serves the events select() reports, one slot at a time.

\* A call of the application can take place before the loop, in the
\* background listener (before the fd sets are built) or in a callback.
Callable == pool.phase \in {"open", "loop"} /\ (pool.pc = 0 \/ pool.running)

\* The fds no slot holds: a new socket gets one of them.
Fresh == {fd \in Fds : \A i \in PoolSlots : pool.io[i].fd # fd}

Calling(name, fd) ==
    [pool EXCEPT !.op = [name |-> name, fd |-> fd,
                         known |-> Holding(pool, fd, PoolSize) # {}],
                 !.result = -1,
                 !.closed = NoClose, !.called = NoListener]

PoolLoop ==
    /\ pool.phase = "open"
    /\ pool' = [Calling("loop", -1) EXCEPT !.phase = "loop", !.terminate = TRUE]
    /\ UNCHANGED <<reactor, parsing, echttp_tls_clients, library>>

PoolRegister ==
    /\ Callable
    /\ \E fd \in Fds, mode \in {0, 1}, listener \in {0, 1, 2}, premium \in {0, 1} :
          pool' = echttp_raw_register(Calling("register", fd),
                                      fd, mode, listener, premium)
    /\ UNCHANGED <<reactor, parsing, echttp_tls_clients, library>>

PoolForget ==
    /\ Callable
    /\ \E fd \in Fds :
          pool' = echttp_raw_forget(Calling("forget", fd), fd)
    /\ UNCHANGED <<reactor, parsing, echttp_tls_clients, library>>

PoolClientCall ==
    /\ Callable
    /\ \E s \in Fresh, secure \in BOOLEAN, attached \in {-1, 0, 2}, luck \in BOOLEAN :
          pool' = PoolClient(Calling("client", s), s, secure, attached, luck)
    /\ UNCHANGED <<reactor, parsing, echttp_tls_clients, library>>

\* echttp_listener_tls, once called for its slot: echttp_tls_ready failed and
\* the slot is closed, or the slot is updated with what TLS waits for.
PoolListenerTls ==
    /\ pool.phase = "loop" /\ pool.called.listener = 9
    /\ pool.called.id \in PoolSlots
    /\ pool.io[pool.called.id].use = ECHTTP_RAW_APP
    /\ \E mode \in {-1, 0, 2} :
          pool' = IF mode < 0
                  THEN PoolClose(Calling("close", pool.io[pool.called.id].fd),
                                 pool.called.id, "TLS failure", TRUE)
                  ELSE echttp_raw_update(
                           Calling("update", pool.io[pool.called.id].fd),
                           pool.called.id, mode + 1)
    /\ UNCHANGED <<reactor, parsing, echttp_tls_clients, library>>

PoolAccepted ==
    /\ pool.phase = "loop" /\ pool.pc = 0
    /\ \E s \in Fresh, verdict \in {0, 1} :
          pool' = PoolAccept(Calling("accept", s), s, verdict, FALSE)
    /\ UNCHANGED <<reactor, parsing, echttp_tls_clients, library>>

\* A handler leaves output in the overflow queue and a transfer.
PoolOutput ==
    /\ pool.phase = "loop" /\ Callable
    /\ \E i \in PoolSlots :
          /\ pool.io[i].use = ECHTTP_RAW_TCP /\ pool.io[i].next = 0
          /\ pool' = [pool EXCEPT !.io[i].next = 1, !.io[i].transfer = 1]
    /\ UNCHANGED <<reactor, parsing, echttp_tls_clients, library>>

\* The closes of a TCP slot: echttp_raw_prune, a failed send() or recv(),
\* the end of a response.
PoolCloseClient ==
    /\ pool.phase = "loop"
    /\ \E i \in PoolSlots, reason \in {"deadline reached", "error", "end of response"} :
          /\ pool.io[i].use = ECHTTP_RAW_TCP
          /\ IF reason = "deadline reached"
             THEN pool.pc = 0 /\ pool.io[i].deadline # 0
                  /\ pool.io[i].next = 0 /\ pool.io[i].transfer = 0
             ELSE Callable
          /\ pool' = PoolClose(Calling("close", pool.io[i].fd), i, reason, TRUE)
    /\ UNCHANGED <<reactor, parsing, echttp_tls_clients, library>>

PoolShutdown ==
    /\ Callable
    /\ pool' = echttp_raw_close(Calling("shutdown", -1))
    /\ UNCHANGED <<reactor, parsing, echttp_tls_clients, library>>

PoolSelect ==
    /\ pool.phase = "loop" /\ pool.pc = 0
    /\ \E ready \in {Fds, {1}} :
          /\ (ReadSet(pool) \cup WriteSet(pool)) \cap ready # {}
          /\ pool' = [pool EXCEPT !.readset = ReadSet(pool) \cap ready,
                                  !.writeset = WriteSet(pool) \cap ready,
                                  !.pc = 1, !.running = FALSE, !.op = NoCall,
                                  !.result = -1,
                                  !.closed = NoClose, !.called = NoListener]
    /\ UNCHANGED <<reactor, parsing, echttp_tls_clients, library>>

PoolServed ==
    /\ pool.phase = "loop" /\ pool.pc > 0
    /\ pool' = PoolServe(pool)
    /\ UNCHANGED <<reactor, parsing, echttp_tls_clients, library>>

NextPool ==
    \/ PoolLoop
    \/ PoolRegister
    \/ PoolForget
    \/ PoolClientCall
    \/ PoolListenerTls
    \/ PoolAccepted
    \/ PoolOutput
    \/ PoolCloseClient
    \/ PoolShutdown
    \/ PoolSelect
    \/ PoolServed

SpecPool == Init /\ [][NextPool]_vars

\* ------------------------------------------------------------------------
\* The TLS client on its own: the application opens a client request for a
\* https url, may schedule a transfer, submits the request, and the loop
\* calls echttp_listener_tls with the events select() reported.  Each SSL
\* call draws its outcome.

Outcomes == {"NONE", "WANT_READ", "WANT_WRITE", "FATAL"}

\* What follows the use of a null SSL pointer: the step ends as computed
\* when lucky, else the program stops where it was.
Luck(R, lucky) ==
    IF R.undefined /\ ~lucky
    THEN [echttp_tls_clients EXCEPT !.phase = "stopped", !.undefined = TRUE]
    ELSE R

TlsClientCall ==
    /\ echttp_tls_clients.phase = "idle"
    /\ \E o1 \in Outcomes, o2 \in Outcomes, o3 \in Outcomes, lucky \in BOOLEAN :
          echttp_tls_clients' = Luck(TlsClient(echttp_tls_clients, 1, o1, o2, o3), lucky)
    /\ UNCHANGED <<reactor, parsing, pool, library>>

TlsTransferCall ==
    /\ echttp_tls_clients.phase = "client"
    /\ echttp_tls_clients.transfer.state = ECHTTP_TRANSFER_IDLE
    /\ \E size \in 1 .. MaxTransfer :
          echttp_tls_clients' = TlsTransfer(echttp_tls_clients, 2, size)
    /\ UNCHANGED <<reactor, parsing, pool, library>>

TlsSubmitCall ==
    /\ echttp_tls_clients.phase = "client"
    /\ \E length \in 0 .. MaxContent, o1 \in Outcomes, o2 \in Outcomes,
          o3 \in Outcomes, lucky \in BOOLEAN :
          echttp_tls_clients' =
              Luck(TlsSubmit(echttp_tls_clients, length, o1, o2, o3), lucky)
    /\ UNCHANGED <<reactor, parsing, pool, library>>

TlsListener ==
    /\ echttp_tls_clients.phase = "submitted"
    /\ echttp_tls_clients.use = ECHTTP_RAW_APP
    /\ \E mode \in {1, 2, 3}, o \in Outcomes, other \in Outcomes,
          whole \in BOOLEAN, lucky \in BOOLEAN :
          /\ BitOr(mode, echttp_tls_clients.listen) = echttp_tls_clients.listen
          /\ echttp_tls_clients' =
                Luck(echttp_listener_tls(echttp_tls_clients, mode, o, other, whole),
                     lucky)
    /\ UNCHANGED <<reactor, parsing, pool, library>>

NextTls ==
    \/ TlsClientCall
    \/ TlsTransferCall
    \/ TlsSubmitCall
    \/ TlsListener

SpecTls == Init /\ [][NextTls]_vars

\* ------------------------------------------------------------------------
\* A catalog on its own: names are set and the catalog is reset.

CatalogSet ==
    /\ Len(catalog.log) < MaxSets
    /\ \E name \in Names, value \in Values :
          catalog' =
              [catalog EXCEPT
                  !.d = echttp_catalog_set(catalog.d, name, value),
                  !.log = Append(catalog.log, <<name, value>>),
                  !.full = catalog.full
                           \/ /\ echttp_catalog_find(catalog.d, name) = 0
                              /\ catalog.d.count + 1 >= MaxSymbol]
    /\ UNCHANGED <<reactor, parsing, pool, echttp_tls_clients,
                   encoding, callback, sorted, hashed, piped, incoming, registered>>

CatalogReset ==
    /\ Len(catalog.log) > 0
    /\ catalog' = [d |-> echttp_catalog_reset(catalog.d), log |-> <<>>,
                   full |-> FALSE, wiped |-> TRUE]
    /\ UNCHANGED <<reactor, parsing, pool, echttp_tls_clients,
                   encoding, callback, sorted, hashed, piped, incoming, registered>>

NextCatalog ==
    \/ CatalogSet
    \/ CatalogReset

SpecCatalog == Init /\ [][NextCatalog]_vars

\* ------------------------------------------------------------------------
\* The percent codec on its own: a string is escaped into a buffer of some
\* size and the result is unescaped; or some text is unescaped.

EncodingEscape ==
    /\ encoding.phase = "idle"
    /\ \E s \in StringsOf(Bytes), size \in 1 .. MaxSize :
          encoding' = [phase |-> "escaped", s |-> s, size |-> size,
                       d |-> echttp_encoding_escape(s, size), back |-> <<>>]
    /\ UNCHANGED <<reactor, parsing, pool, echttp_tls_clients,
                   catalog, callback, sorted, hashed, piped, incoming, registered>>

EncodingUnescape ==
    /\ encoding.phase = "escaped"
    /\ encoding' = [encoding EXCEPT !.phase = "unescaped",
                                    !.back = UnescapeBytes(encoding.d)]
    /\ UNCHANGED <<reactor, parsing, pool, echttp_tls_clients,
                   catalog, callback, sorted, hashed, piped, incoming, registered>>

EncodingDecode ==
    /\ encoding.phase = "idle"
    /\ \E data \in StringsOf(Escapes) :
          encoding' = [phase |-> "decoded", s |-> <<>>, size |-> 0,
                       d |-> data, back |-> UnescapeBytes(data)]
    /\ UNCHANGED <<reactor, parsing, pool, echttp_tls_clients,
                   catalog, callback, sorted, hashed, piped, incoming, registered>>

NextEncoding ==
    \/ EncodingEscape
    \/ EncodingUnescape
    \/ EncodingDecode

SpecEncoding == Init /\ [][NextEncoding]_vars

\* ------------------------------------------------------------------------
\* The callbacks of the application on their own: the reactor calls a
\* protect callback then a handler, a response callback, or the background
\* function or a listener of the application; the callback that runs opens
\* client requests and submits them, and returns.

CurrentExecute ==
    /\ callback.running = ""
    /\ \E context \in {0, 1} : callback' = CallbackExecute(callback, context)
    /\ UNCHANGED <<reactor, parsing, pool, echttp_tls_clients,
                   catalog, encoding, sorted, hashed, piped, incoming, registered>>

CurrentProtected ==
    /\ callback.running = "protect"
    /\ \E passed \in BOOLEAN, handler \in {"handler", "asynchronous"} :
          callback' = CallbackProtected(callback, passed, handler)
    /\ UNCHANGED <<reactor, parsing, pool, echttp_tls_clients,
                   catalog, encoding, sorted, hashed, piped, incoming, registered>>

CurrentRespond ==
    /\ callback.running = ""
    /\ \E context \in {0, 1} : callback' = CallbackRespond(callback, context)
    /\ UNCHANGED <<reactor, parsing, pool, echttp_tls_clients,
                   catalog, encoding, sorted, hashed, piped, incoming, registered>>

CurrentReturn ==
    /\ callback.running \in {"handler", "asynchronous", "response"}
    /\ callback' = CallbackReturned(callback)
    /\ UNCHANGED <<reactor, parsing, pool, echttp_tls_clients,
                   catalog, encoding, sorted, hashed, piped, incoming, registered>>

\* echttp_raw_loop calls the background function or a listener that the
\* application registered, and the callback returns.
CurrentBackground ==
    /\ callback.running = ""
    /\ callback' = [callback EXCEPT !.running = "background"]
    /\ UNCHANGED <<reactor, parsing, pool, echttp_tls_clients,
                   catalog, encoding, sorted, hashed, piped, incoming, registered>>

CurrentBackgroundReturn ==
    /\ callback.running = "background"
    /\ callback' = [callback EXCEPT !.running = "", !.returned = "background"]
    /\ UNCHANGED <<reactor, parsing, pool, echttp_tls_clients,
                   catalog, encoding, sorted, hashed, piped, incoming, registered>>

\* The callback that runs calls echttp_client, which fails when ~made.
CurrentClient ==
    /\ callback.running # ""
    /\ callback.opens < MaxOpens
    /\ \E made \in BOOLEAN :
          callback' = IF made THEN CallbackClient(callback, 2)
                      ELSE [callback EXCEPT !.returned = "echttp_client"]
    /\ UNCHANGED <<reactor, parsing, pool, echttp_tls_clients,
                   catalog, encoding, sorted, hashed, piped, incoming, registered>>

CurrentRedirected ==
    /\ callback.running = "response"
    /\ callback.current >= 0
    /\ callback.opens < MaxOpens
    /\ callback' = CallbackRedirected(callback, 2)
    /\ UNCHANGED <<reactor, parsing, pool, echttp_tls_clients,
                   catalog, encoding, sorted, hashed, piped, incoming, registered>>

\* The callback that runs calls echttp_submit, which reads echttp_current.
CurrentSubmit ==
    /\ callback.running # ""
    /\ callback.opens > 0
    /\ callback.current >= 0
    /\ callback' = CallbackSubmit(callback)
    /\ UNCHANGED <<reactor, parsing, pool, echttp_tls_clients,
                   catalog, encoding, sorted, hashed, piped, incoming, registered>>

NextCurrent ==
    \/ CurrentExecute
    \/ CurrentProtected
    \/ CurrentRespond
    \/ CurrentReturn
    \/ CurrentBackground
    \/ CurrentBackgroundReturn
    \/ CurrentClient
    \/ CurrentRedirected
    \/ CurrentSubmit

SpecCurrent == Init /\ [][NextCurrent]_vars

\* ------------------------------------------------------------------------
\* A sorted list on its own: items are added, each reference once, items
\* are removed, whether the list holds them or not, and the list is walked
\* both ways.

SortedAdd ==
    /\ \E key \in 0 .. MaxKey, data \in 1 .. MaxItems :
          /\ \A k \in 1 .. Len(sorted.items) : sorted.items[k][2] # data
          /\ sorted' = [sorted EXCEPT
                           !.list = echttp_sorted_add(sorted.list, key, data),
                           !.items = Append(@, <<key, data>>),
                           !.walked = FALSE, !.up = <<>>, !.down = <<>>,
                            !.audit = [buckets |-> 0, items |-> 0]]
    /\ UNCHANGED <<reactor, parsing, pool, echttp_tls_clients,
                   catalog, encoding, callback, hashed, piped, incoming, registered>>

SortedRemoveCall ==
    /\ \E key \in 0 .. MaxKey, data \in 1 .. MaxItems :
          LET Kept(e) == e # <<key, data>>
          IN  sorted' = [sorted EXCEPT
                            !.list = echttp_sorted_remove(sorted.list, key, data),
                            !.items = SelectSeq(@, Kept),
                            !.removed = @ \/ \E k \in 1 .. Len(sorted.items) :
                                                ~Kept(sorted.items[k]),
                            !.walked = FALSE, !.up = <<>>, !.down = <<>>,
                            !.audit = [buckets |-> 0, items |-> 0]]
    /\ UNCHANGED <<reactor, parsing, pool, echttp_tls_clients,
                   catalog, encoding, callback, hashed, piped, incoming, registered>>

SortedWalk ==
    /\ ~sorted.walked
    /\ sorted' = [sorted EXCEPT
                     !.walked = TRUE,
                     !.up = echttp_sorted_ascending(sorted.list),
                     !.down = echttp_sorted_descending(sorted.list),
                     !.audit = echttp_sorted_audit(sorted.list)]
    /\ UNCHANGED <<reactor, parsing, pool, echttp_tls_clients,
                   catalog, encoding, callback, hashed, piped, incoming, registered>>

NextSorted ==
    \/ SortedAdd
    \/ SortedRemoveCall
    \/ SortedWalk

SpecSorted == Init /\ [][NextSorted]_vars

\* ------------------------------------------------------------------------
\* An index on its own: keys are added and the index is iterated.

HashAdd ==
    /\ \E name \in HashNames :
          hashed' = [HashedInit EXCEPT !.d = echttp_hash_add(hashed.d, name)]
    /\ UNCHANGED <<reactor, parsing, pool, echttp_tls_clients,
                   catalog, encoding, callback, sorted, piped, incoming, registered>>

HashIterate ==
    /\ \E name \in HashNames \cup {NullUri}, stop \in SUBSET (1 .. (MaxSymbol - 1)) :
          LET done == echttp_hash_iterate(hashed.d, name, stop)
          IN  hashed' = [hashed EXCEPT !.iterated = TRUE, !.name = name,
                                       !.stop = stop, !.calls = done.calls,
                                       !.result = done.result]
    /\ UNCHANGED <<reactor, parsing, pool, echttp_tls_clients,
                   catalog, encoding, callback, sorted, piped, incoming, registered>>

NextHash ==
    \/ HashAdd
    \/ HashIterate

SpecHash == Init /\ [][NextHash]_vars

\* ------------------------------------------------------------------------
\* One plain connection: calls of echttp_raw_send interleaved with calls of
\* echttp_raw_transmit.

\* The application calls echttp_raw_send with 1 to ClientBufferSize + 1 units.
PipedSend ==
    /\ piped.sends < MaxSends
    /\ \E length \in 1 .. (ClientBufferSize + 1) :
          LET data == SendData(piped.sends + 1, length)
              valid == ~echttp_raw_invalid(piped.raw)
          IN  piped' = [piped EXCEPT
                           !.raw = echttp_raw_send(@, data),
                           !.sends = @ + 1,
                           !.sent = IF valid THEN @ \o data ELSE @,
                           !.behind = @ \/ (valid /\ TransmitFromQueue(piped.raw))]
    /\ UNCHANGED <<reactor, parsing, pool, echttp_tls_clients,
                   catalog, encoding, callback, sorted, hashed, incoming, registered>>

\* select() reported the socket writable: send() returns result.
PipedTransmit ==
    /\ RawPendingOutput(piped.raw)
    /\ \E result \in -1 .. TransmitLength(piped.raw) :
          LET S == [raw |-> piped.raw, ctx |-> ContextInit,
                    gh  |-> [GhostInit EXCEPT !.wire = piped.wire]]
              after == echttp_raw_transmit(S, result, 0)
          IN  piped' = [piped EXCEPT !.raw = after.raw, !.wire = after.gh.wire]
    /\ UNCHANGED <<reactor, parsing, pool, echttp_tls_clients,
                   catalog, encoding, callback, sorted, hashed, incoming, registered>>

NextPiped ==
    \/ PipedSend
    \/ PipedTransmit

SpecPiped == Init /\ [][NextPiped]_vars

\* ------------------------------------------------------------------------
\* One message whose content goes to an incoming transfer.

\* The header block arrives with the first units of the content, not all of
\* it: a request for the asynchronous route 2, or the response to a client
\* request that echttp_asynchronous and echttp_submit were called for.  The
\* asynchronous callback schedules a transfer for the rest, or does not.
IncomingHeader ==
    /\ incoming.side = ""
    /\ \E side \in {"server", "client"}, total \in 1 .. MaxBody,
          async \in {"transfer", "none"} :
       \E given \in 0 .. (total - 1) :
          LET head  == IF side = "server" THEN RequestHeader(1, total, 2, 1)
                       ELSE [k |-> "H", r |-> 1, v |-> total, x |-> 200, y |-> 0]
              units == <<head>> \o [n \in 1 .. given |-> ContentUnit(n)]
              ctx   == IF side = "client"
                       THEN [incoming.S.ctx EXCEPT !.response = 1,
                                                   !.asynchronous = 1]
                       ELSE incoming.S.ctx
              got   == echttp_raw_bufferedinput(
                           [incoming.S EXCEPT !.raw.in.data = units, !.ctx = ctx],
                           -1, [NoPlan EXCEPT !.async = async], NoPlan)
          IN  incoming' = [incoming EXCEPT
                              !.S = got.S, !.side = side, !.total = total,
                              !.given = given, !.arrived = given]
    /\ UNCHANGED <<reactor, parsing, pool, echttp_tls_clients,
                   catalog, encoding, callback, sorted, hashed, piped, registered>>

\* The peer sends more of the content, or the loop gives the receiver what
\* is left in the buffer; write() takes at most most units.
IncomingData ==
    /\ incoming.side # ""
    /\ incoming.S.raw.fd >= 0
    /\ \E more \in 0 .. Min(incoming.total - incoming.arrived,
                            ReceiveRoom(incoming.S.raw) - 1),
          most \in 0 .. MaxBody :
          /\ more > 0 \/ Len(incoming.S.raw.in.data) > 0
          /\ LET S == [incoming.S EXCEPT !.raw.in.data =
                          @ \o [n \in 1 .. more |-> ContentUnit(incoming.arrived + n)]]
                 called == /\ S.ctx.state = ECHTTP_STATE_CONTENT
                           /\ S.ctx.transfer.state = ECHTTP_TRANSFER_IN
                 size == Min(most, TransferWanted(S))
                 got == echttp_raw_bufferedinput(
                            S, -1, [NoPlan EXCEPT !.write = most], NoPlan)
             IN  incoming' = [incoming EXCEPT
                                 !.S = got.S,
                                 !.arrived = @ + more,
                                 !.last = IF called
                                          THEN [called |-> TRUE,
                                                left |-> S.ctx.transfer.size,
                                                buffered |-> Len(S.raw.in.data),
                                                want |-> TransferWanted(S),
                                                size |-> size]
                                          ELSE NoWrite,
                                 !.partial = @ \/ (called /\ size > 0
                                                   /\ size < TransferWanted(S))]
    /\ UNCHANGED <<reactor, parsing, pool, echttp_tls_clients,
                   catalog, encoding, callback, sorted, hashed, piped, registered>>

NextIncoming ==
    \/ IncomingHeader
    \/ IncomingData

SpecIncoming == Init /\ [][NextIncoming]_vars

\* ------------------------------------------------------------------------
\* The input buffer of one TLS client.

\* echttp_tls_attach: the registration is allocated once and used again;
\* echttp_tls_cleanup empties its buffers.
TlsInputAttach ==
    /\ ~registered.open
    /\ registered' = [RegisteredInit EXCEPT !.in.data = registered.in.data,
                                            !.open = TRUE]
    /\ UNCHANGED <<reactor, parsing, pool, echttp_tls_clients,
                   catalog, encoding, callback, sorted, hashed, piped, incoming>>

\* echttp_listener_tls with the mode 1 and nothing pending: SSL_read returns
\* some bytes, reports that it waits, or fails; the receiver takes none,
\* some or all of what it is given.  The slot is closed when
\* echttp_tls_receive returns -1.
TlsInputReceive ==
    /\ registered.open
    /\ \E o \in Outcomes,
          ret \in 1 .. Max(1, Min(TlsAvailable(registered.in),
                                  MaxUnits - registered.count)),
          junk \in TlsIndeterminate :
       \E taken \in 0 .. (registered.in.end - registered.in.start + ret) :
          /\ o = "NONE" => registered.count + ret <= MaxUnits
          /\ (o # "NONE" \/ TlsAvailable(registered.in) <= 0)
                => (ret = 1 /\ taken = 0 /\ junk = TlsUnit(1))
          /\ LET units == [n \in 1 .. ret |-> TlsUnit(registered.count + n)]
                 G == TlsReceived(registered, o, units, junk, taken)
             IN  registered' = [G EXCEPT !.open = G.ret >= 0]
    /\ UNCHANGED <<reactor, parsing, pool, echttp_tls_clients,
                   catalog, encoding, callback, sorted, hashed, piped, incoming>>

NextTlsInput ==
    \/ TlsInputAttach
    \/ TlsInputReceive

SpecTlsInput == Init /\ [][NextTlsInput]_vars

\* ------------------------------------------------------------------------
\* Properties.

IsPrefix(a, b) == Len(a) <= Len(b) /\ SubSeq(b, 1, Len(a)) = a

RequestsOf(calls) == [k \in 1 .. Len(calls) |-> calls[k].r]

\* The requests of slot i that echttp_execute was called for, the ones the
\* protect callbacks let pass and the ones the route handler was called for.
Processed(i) ==
    RequestsOf(SelectSeq(ghost[i].calls, LAMBDA c : c.cb = "protect"))

Admitted(i) ==
    RequestsOf(SelectSeq(ghost[i].calls,
                         LAMBDA c : c.cb = "route protect" /\ c.status = 200))

Handled(i) ==
    RequestsOf(SelectSeq(ghost[i].calls, LAMBDA c : c.cb = "handler"))

\* Slot i is a connection with nothing left to write.
Drained(i) ==
    /\ echttp_raw_io[i].use = ECHTTP_RAW_TCP
    /\ ~RawPendingOutput(echttp_raw_io[i])

\* C1: on a server connection no request handler is called while the
\* previous response still has unsent data (inline buffer, overflow queue or
\* file transfer), whatever the segments received.
C1_HandlerOnlyWhenSent ==
    \A i \in Slots : \A k \in 1 .. Len(ghost[i].calls) :
        ghost[i].calls[k].cb = "handler" => ~ghost[i].calls[k].busy

C3_OutputInOrder ==
    \A i \in Slots :
        ghost[i].emitting = 1 =>
            /\ IsPrefix(ghost[i].wire, ghost[i].expect)
            /\ Drained(i) => ghost[i].wire = ghost[i].expect

\* C3 witness: a response larger than the inline buffer, with queued data
\* and a file transfer, was written completely.
C3_Witness ==
    \E i \in Slots :
        /\ ghost[i].emitting = 1
        /\ Drained(i)
        /\ ghost[i].wire = ghost[i].expect
        /\ Len(ghost[i].wire) > ClientBufferSize
        /\ \E k \in 1 .. Len(ghost[i].wire) : ghost[i].wire[k].k = "F"
        /\ \E k \in 1 .. Len(ghost[i].wire) : ghost[i].wire[k].k = "Q"

\* The count of content units written from position j up to the next status
\* line, and the value of the first Content-Length line after position j.
RECURSIVE BodyAfter(_, _)
BodyAfter(wire, j) ==
    IF j > Len(wire) \/ wire[j].k = "S" THEN 0
    ELSE (IF wire[j].k \in {"D", "Q", "F"} THEN 1 ELSE 0) + BodyAfter(wire, j + 1)

LengthAfter(wire, j) ==
    wire[CHOOSE k \in j .. Len(wire) :
             /\ wire[k].k = "C"
             /\ \A m \in j .. (k - 1) : wire[m].k # "C"].v

\* C4: once a connection has nothing left to write, every response with
\* status 200 written to it announced a Content-Length equal to the count of
\* content bytes written for it (returned string, queued content, file).
C4_ContentLengthExact ==
    \A i \in Slots :
        Drained(i) =>
            \A j \in 1 .. Len(ghost[i].wire) :
                (ghost[i].wire[j].k = "S" /\ ghost[i].wire[j].v = 200) =>
                    BodyAfter(ghost[i].wire, j + 1) = LengthAfter(ghost[i].wire, j)

\* C5: a call of echttp_transfer made while a transfer is scheduled for the
\* request leaves the scheduled descriptor, size and direction unchanged.
C5_TransferIdempotent ==
    \A i \in Slots : \A k \in 1 .. Len(ghost[i].repeat) :
        ghost[i].repeat[k].after = ghost[i].repeat[k].before

\* C5 witness: a handler called echttp_transfer twice and the response was
\* sent with the first file.
C5_Witness ==
    \E i \in Slots :
        /\ Len(ghost[i].repeat) > 0
        /\ ghost[i].repeat[1].before.state = ECHTTP_TRANSFER_OUT
        /\ \E k \in 1 .. Len(ghost[i].wire) :
              ghost[i].wire[k] = FileUnit(ghost[i].repeat[1].before.fd)

\* Slot i is a connection with nothing left to write on which nothing was
\* sent or received for Ttl + 1 seconds.
Idle(i) ==
    /\ Drained(i)
    /\ now >= ghost[i].active + Ttl + 1

\* C6 as stated: after any iteration of the loop, no connection with nothing
\* left to write has been without traffic for Ttl + 1 seconds (it was closed).
C6_IdleClosed ==
    \A i \in Slots : ~Idle(i)

\* C6 amended: after any iteration of the loop, no connection with a
\* deadline (an accepted connection) and nothing left to write has been
\* without traffic for Ttl + 1 seconds; the ones the prune closed have the
\* reason "deadline reached" and had been idle for that long.
C6_IdleAcceptedClosed ==
    \A i \in Slots :
        /\ echttp_raw_io[i].deadline # 0 => ~Idle(i)
        /\ ghost[i].reason = "deadline reached" =>
              /\ echttp_raw_io[i].use = ECHTTP_RAW_UNUSED
              /\ now >= ghost[i].active + Ttl + 1

\* C6 witness: an accepted connection that received a request and wrote the
\* response was closed by the prune, Ttl + 1 seconds after its last traffic.
C6_Witness ==
    \E i \in Slots :
        /\ ghost[i].reason = "deadline reached"
        /\ ~ghost[i].submitted
        /\ Len(ghost[i].wire) > 0
        /\ now = ghost[i].active + Ttl + 1

\* C7: the prune never closes a connection that has a file transfer in
\* flight or unsent data in the inline buffer or the overflow queue.
C7_PruneSparesOutput ==
    \A i \in Slots :
        ghost[i].reason = "deadline reached" => ~ghost[i].unsent

\* C7 witness: the prune ran at a time past the deadline of a connection
\* that has output left, and the connection is still open.
C7_Witness ==
    \E i \in Slots :
        /\ echttp_raw_io[i].use = ECHTTP_RAW_TCP
        /\ RawPendingOutput(echttp_raw_io[i])
        /\ echttp_raw_io[i].deadline # 0
        /\ now > echttp_raw_io[i].deadline
        /\ LastDeadlineCheck = now

\* C8: in every step that leaves a connection open, its deadline becomes
\* max(deadline, time + Ttl) when the step sent or received data on it and
\* the deadline was not 0, and is unchanged otherwise: the deadline never
\* decreases, and a deadline of 0 stays 0.
C8_DeadlineExtended ==
    [][\A i \in Slots :
          (/\ echttp_raw_io[i].use = ECHTTP_RAW_TCP
           /\ echttp_raw_io'[i].use = ECHTTP_RAW_TCP
           /\ echttp_raw_io'[i].fd = echttp_raw_io[i].fd)
          => echttp_raw_io'[i].deadline =
                 IF last'.slot = i /\ echttp_raw_io[i].deadline # 0
                 THEN Max(echttp_raw_io[i].deadline, now' + Ttl)
                 ELSE echttp_raw_io[i].deadline]_vars

\* C8 witness: a send on an accepted connection has just moved its deadline
\* to the current time + Ttl.
C8_Witness ==
    \E i \in Slots :
        /\ last = [op |-> "send", slot |-> i]
        /\ echttp_raw_io[i].use = ECHTTP_RAW_TCP
        /\ ghost[i].pushed
        /\ echttp_raw_io[i].deadline = now + Ttl

\* C9: when the connection of a client request submitted with a response
\* callback has been closed, whatever the reason, the callback was called
\* for that request.
C9_CallbackBeforeRelease ==
    \A i \in Slots :
        (ghost[i].submitted /\ ghost[i].reason # "") =>
            Len(ghost[i].answers) > ghost[i].hops

Elements(seq) == {seq[k] : k \in 1 .. Len(seq)}

\* C10: for a client request made by following a redirection, every
\* attribute set on the original request is sent with it, the callback was
\* called once for each redirection followed (and made the new request),
\* and when the response 200 has arrived the callback was called exactly
\* once more, with the status 200 and the content length of that response.
C10_RedirectFollowed ==
    \A i \in Slots :
        ghost[i].hops >= 1 =>
            /\ \A a \in Elements(ghost[i].headers) :
                   \E k \in 1 .. Len(ghost[i].expect) :
                       ghost[i].expect[k].k = "A" /\ ghost[i].expect[k].x = a
            /\ Len(ghost[i].answers) \in {ghost[i].hops, ghost[i].hops + 1}
            /\ \A k \in 1 .. ghost[i].hops :
                   ghost[i].answers[k] = [status |-> 302, length |-> 0, result |-> 0]
            /\ (ghost[i].reason = "end of response" /\ echttp_context[i].status = 200)
                   => /\ Len(ghost[i].answers) = ghost[i].hops + 1
                      /\ ghost[i].answers[ghost[i].hops + 1] =
                             [status |-> 200,
                              length |-> echttp_context[i].contentlength,
                              result |-> 200]

\* C10 witness: a request with two attributes was answered 302 with a
\* Location, then 200 with content.
C10_Witness ==
    \E i \in Slots :
        /\ ghost[i].hops = 1
        /\ Len(ghost[i].headers) = 2
        /\ ghost[i].reason = "end of response"
        /\ echttp_context[i].status = 200
        /\ echttp_context[i].contentlength > 0
        /\ Len(ghost[i].answers) = 2

\* The requests of slot i answered with the status given.
Answered(i, status) ==
    {ghost[i].expect[k].r :
        k \in {j \in 1 .. Len(ghost[i].expect) :
                  /\ ghost[i].expect[j].k = "S"
                  /\ ghost[i].expect[j].v = status}}

\* The callbacks called for request r of slot i.
CallsFor(i, r) == SelectSeq(ghost[i].calls, LAMBDA c : c.r = r)

\* C13: when the route lookup misses (the only source of a 404 reply with
\* the plain routes), no protect callback and no handler was called for the
\* request and the connection is closed.
C13_NotFoundClosed ==
    \A i \in Slots : \A r \in Answered(i, 404) :
        /\ CallsFor(i, r) = <<>>
        /\ echttp_raw_io[i].use = ECHTTP_RAW_UNUSED

\* C17: when echttp_raw_receive finds that the input buffer cannot take one
\* more byte, the receiver is notified of the failure and the connection is
\* closed with the reason "data too large".
C17_InputTooLarge ==
    \A i \in Slots :
        ghost[i].full =>
            /\ ghost[i].notified
            /\ echttp_raw_io[i].use = ECHTTP_RAW_UNUSED
            /\ ghost[i].reason = "data too large"

\* The positions in calls of the calls of callback cb.
Positions(calls, cb) == {k \in 1 .. Len(calls) : calls[k].cb = cb}

\* C18: for every request the global protect callback is called before the
\* route's protect callback, both before the asynchronous callback and the
\* handler, and each protect callback is called at most once, also when
\* they were called for the asynchronous callback before the content was
\* complete.
C18_ProtectOnce ==
    \A i \in Slots : \A r \in 1 .. MaxRequests :
        /\ Cardinality(Positions(CallsFor(i, r), "protect")) <= 1
        /\ Cardinality(Positions(CallsFor(i, r), "route protect")) <= 1
        /\ \A a \in Positions(CallsFor(i, r), "route protect") :
               \E b \in Positions(CallsFor(i, r), "protect") : b < a
        /\ \A a \in Positions(CallsFor(i, r), "handler")
                     \cup Positions(CallsFor(i, r), "asynchronous") :
               /\ \E b \in Positions(CallsFor(i, r), "protect") : b < a
               /\ \A b \in Positions(CallsFor(i, r), "route protect") : b < a

\* The statuses with which a protect callback refused request r of slot i:
\* 204 or any status that is not 2xx.
Refused(i, r) ==
    {CallsFor(i, r)[k].status :
        k \in {j \in Positions(CallsFor(i, r), "protect")
                      \cup Positions(CallsFor(i, r), "route protect") :
                  \/ CallsFor(i, r)[j].status = 204
                  \/ CallsFor(i, r)[j].status \div 100 # 2}}

\* The units of the reply to request r of slot i are the ones of
\* echttp_send_error with one of the statuses given.
ErrorReply(i, r, statuses) ==
    \A k \in 1 .. Len(ghost[i].expect) :
        ghost[i].expect[k].r = r =>
            /\ ghost[i].expect[k].k \in {"S", "C", "N"}
            /\ ghost[i].expect[k].k = "S" => ghost[i].expect[k].v \in statuses
            /\ ghost[i].expect[k].k = "C" => ghost[i].expect[k].v = 0

\* C19: when a protect callback leaves the status 204 or a status that is
\* not 2xx, neither the asynchronous callback nor the handler of the route
\* is called for the request, and the reply is the one of echttp_send_error
\* with that status.
C19_ProtectShortCircuit ==
    \A i \in Slots : \A r \in 1 .. MaxRequests :
        Refused(i, r) # {} =>
            /\ Positions(CallsFor(i, r), "handler") = {}
            /\ Positions(CallsFor(i, r), "asynchronous") = {}
            /\ ErrorReply(i, r, Refused(i, r))

\* The statuses the handler left for request r of slot i.
HandlerLeft(i, r) ==
    {CallsFor(i, r)[k].status : k \in Positions(CallsFor(i, r), "handler")}

\* Nothing of a transfer scheduled for request r of slot i is left in the
\* context or was handed to echttp_raw.
TransferCancelled(i, r) ==
    /\ echttp_context[i].transfer.fd \div 10 # r
    /\ echttp_raw_io[i].transfer.fd \div 10 # r

\* C20 as stated: when the handler leaves a status that is not 2xx, the
\* reply is the one of echttp_send_error with that status and the transfer
\* the handler scheduled is cancelled.
C20_HandlerErrorReply ==
    \A i \in Slots : \A r \in 1 .. MaxRequests :
        \A s \in HandlerLeft(i, r) :
            s \div 100 # 2 =>
                /\ ErrorReply(i, r, {s})
                /\ TransferCancelled(i, r)

\* The reply to request r of slot i is a normal response with the status s:
\* its status line is followed by a Content-Length that counts content, and
\* by the Location attribute when echttp_redirect was called (307).
RedirectReply(i, r, s) ==
    \A k \in 1 .. Len(ghost[i].expect) :
        (ghost[i].expect[k].k = "S" /\ ghost[i].expect[k].r = r) =>
            /\ ghost[i].expect[k].v = s
            /\ \E m \in (k + 1) .. Len(ghost[i].expect) :
                   /\ ghost[i].expect[m].k = "C"
                   /\ ghost[i].expect[m].r = r
                   /\ ghost[i].expect[m].v > 0
            /\ s = 307 => \E m \in (k + 1) .. Len(ghost[i].expect) :
                              ghost[i].expect[m] = Tok("A", r, 0, 4)

\* C20 amended: when the handler leaves a status of 400 or more, the reply
\* is the one of echttp_send_error with that status and the transfer the
\* handler scheduled is cancelled; when it leaves a 3xx status (as
\* echttp_redirect does) the normal response is sent with that status, its
\* attributes, its content and its transfer.
C20_HandlerErrorOrRedirect ==
    \A i \in Slots : \A r \in 1 .. MaxRequests :
        \A s \in HandlerLeft(i, r) :
            /\ s \div 100 > 3 => ErrorReply(i, r, {s}) /\ TransferCancelled(i, r)
            /\ s \div 100 = 3 => RedirectReply(i, r, s)

\* C20 witness: a handler scheduled a transfer and reported 404; the file
\* was closed and the reply 404 was written without content.
C20_Witness ==
    \E i \in Slots : \E r \in 1 .. MaxRequests :
        /\ 404 \in HandlerLeft(i, r)
        /\ 10 * r + 1 \in Elements(ghost[i].closed)
        /\ Drained(i)
        /\ ghost[i].wire = <<Tok("S", r, 404, 0), Tok("C", r, 0, 0), Tok("N", r, 0, 0)>>

\* C11: when a handler calls echttp_client and then echttp_submit, the
\* context that was current at echttp_client is current again when
\* echttp_submit returns, so that the attributes and the status the handler
\* sets outside of the client request are those of its own response; a call
\* of echttp_client that fails leaves the current context as it was.
C11_ContextRestored ==
    /\ frame.op = "submit" => echttp_current = frame.handler
    /\ frame.failed /\ frame.op \notin {"attribute", "error", "client", "submit"}
          => echttp_current = frame.was
    /\ frame.handler >= 0 =>
          /\ \A name \in Elements(frame.enclosing) :
                name \in Elements(echttp_context[frame.handler].out)
          /\ frame.status # 0 =>
                echttp_context[frame.handler].status = frame.status

\* A handler had a client request fail, made one and submitted it, and set
\* an attribute and a status afterwards.
C11_Witness ==
    /\ frame.handler >= 0
    /\ frame.submitted
    /\ frame.failed
    /\ frame.op = "error"
    /\ echttp_current = frame.handler
    /\ 2 \in Elements(echttp_context[frame.handler].out)
    /\ echttp_context[frame.handler].status = 404

\* The uris obtained from path by stripping trailing segments.
Stripped(path) ==
    {SubSeq(path, 1, k - 1) : k \in {j \in 2 .. Len(path) : path[j] = "/"}}

RoutesEqual(path) ==
    {i \in RoutesLive(echttp_routing) : echttp_routing.item[i].uri = path}

RoutesAbove(path) ==
    {i \in RoutesLive(echttp_routing) :
        /\ echttp_routing.item[i].match = ECHTTP_MATCH_PARENT
        /\ echttp_routing.item[i].uri \in Stripped(path)}

RoutesRoot ==
    {i \in RoutesLive(echttp_routing) :
        /\ echttp_routing.item[i].match = ECHTTP_MATCH_PARENT
        /\ echttp_routing.item[i].uri = <<"/">>}

\* C12: the lookup returns an entry whose uri equals the path if there is
\* one; otherwise the Prefix entry with the longest uri among those obtained
\* by stripping trailing segments of the path; otherwise the Prefix entry
\* "/"; otherwise it misses.  An Exact entry is only returned for its own
\* uri.
C12_RouteLookup ==
    found # NoLookup =>
        /\ IF RoutesEqual(found.uri) # {}
           THEN found.route \in RoutesEqual(found.uri)
           ELSE IF RoutesAbove(found.uri) # {}
           THEN /\ found.route \in RoutesAbove(found.uri)
                /\ \A j \in RoutesAbove(found.uri) :
                      Len(echttp_routing.item[j].uri)
                         <= Len(echttp_routing.item[found.route].uri)
           ELSE IF RoutesRoot # {}
           THEN found.route \in RoutesRoot
           ELSE found.route = -1
        /\ found.route > 0
              /\ echttp_routing.item[found.route].match = ECHTTP_MATCH_EXACT
              => echttp_routing.item[found.route].uri = found.uri

\* Two Prefix entries are above the path, and the longer one was returned.
C12_Witness ==
    /\ found # NoLookup
    /\ RoutesEqual(found.uri) = {}
    /\ Cardinality(RoutesAbove(found.uri)) = 2
    /\ found.route \in RoutesAbove(found.uri)
    /\ Len(echttp_routing.item[found.route].uri) = 4

\* The string s holds two dots in a row.
Dotted(s) == \E k \in 1 .. (Len(s) - 1) : s[k] = "." /\ s[k + 1] = "."

\* The words of a request line, its target, and the parts of the target.
WordsOf(line) == echttp_split(line, " ", Len(line)).items

PartsOf(target) ==
    UNION {{echttp_split(a, "=", Len(a)).items[n] :
               n \in 1 .. echttp_split(a, "=", Len(a)).count} :
           a \in UNION {{echttp_split(p, "&", Len(p)).items[n] :
                            n \in 1 .. echttp_split(p, "&", Len(p)).count} :
                        p \in {echttp_split(target, "?", Len(target)).items[n] :
                                  n \in 1 .. echttp_split(target, "?",
                                                          Len(target)).count}}}

\* C14: a request whose target holds ".." anywhere, as received or once its
\* escapes are decoded, has its connection closed with the reason "path
\* traversal", gets no reply and goes to no callback.
C14_TraversalRejected ==
    /\ request # NoRequest
    /\ Len(WordsOf(request.line)) = 3
    /\ \/ Dotted(WordsOf(request.line)[2])
       \/ \E part \in PartsOf(WordsOf(request.line)[2]) :
             /\ echttp_encoding_unescape(part) # NullUri
             /\ Dotted(echttp_encoding_unescape(part))
    => /\ request.closed
       /\ request.reason = "path traversal"
       /\ request.reply = 0
       /\ request.fate = "closed"

\* C15: a request line that does not hold exactly three words, or whose
\* method, path or query parameter holds an escape that cannot be decoded,
\* is answered with 406, goes to no handler and has its connection closed,
\* and nothing undefined was done.
C15_InvalidRejected ==
    /\ request # NoRequest
    /\ \/ Len(WordsOf(request.line)) # 3
       \/ echttp_encoding_unescape(WordsOf(request.line)[1]) = NullUri
       \/ \E part \in PartsOf(WordsOf(request.line)[2]) :
             echttp_encoding_unescape(part) = NullUri
    => /\ request.reply = 406
       /\ request.fate = "invalid"
       /\ request.closed
       /\ ~request.undefined

RECURSIVE Concatenated(_)
Concatenated(chunks) ==
    IF Len(chunks) = 0 THEN <<>>
    ELSE chunks[1] \o Concatenated(Tail(chunks))

\* The data left holds the end of a header block.
HeaderLeft(left) ==
    \E k \in 1 .. (Len(left) - 3) :
        SubSeq(left, k, k + 3) = <<"CR", "LF", "CR", "LF">>

\* C16: when the whole chunked content of a request is in the buffer, the
\* request is executed once, with a content that is the chunks put end to
\* end in order and a length that is the sum of their sizes; the chunk of
\* size zero ends the content.
C16_ChunkedContent ==
    chunked # NoChunked =>
        /\ chunked.fate = "execute"
        /\ ~HeaderLeft(chunked.left)
        /\ chunked.content = Concatenated(chunked.chunks)
        /\ chunked.length = Len(Concatenated(chunked.chunks))

\* Two chunks were decoded, the first of two bytes with a line feed in it.
C16_Witness ==
    /\ chunked.fate = "execute"
    /\ Len(chunked.chunks) = 2
    /\ Len(chunked.chunks[1]) = 2
    /\ chunked.chunks[1][1] = "LF"
    /\ chunked.length = 3
    /\ chunked.content = chunked.chunks[1] \o chunked.chunks[2]

\* ------------------------------------------------------------------------
\* The pool of echttp_raw.c.

Count(events, e) == Cardinality({k \in 1 .. Len(events) : events[k] = e})
Before(events, a, b) ==
    \A j, k \in 1 .. Len(events) : events[j] = a /\ events[k] = b => j < k

\* What the last close did when the terminator was called as it should.
Terminated ==
    /\ Count(pool.closed.events, "terminate") = 1
    /\ Before(pool.closed.events, "terminate", "close")
    /\ Before(pool.closed.events, "terminate", "unused")
    /\ Count(pool.closed.events, "close") = 1
    /\ pool.closed.use = ECHTTP_RAW_TCP
          => Count(pool.closed.events, "release queue") = 1
    /\ pool.io[pool.closed.slot] = IoUnused

\* C21 (as stated): whenever a TCP or application slot is closed, the
\* terminator is called exactly once, before the socket is closed and before
\* the slot is unused, and the overflow queue is released; the terminator is
\* not called for a client the acceptor rejected.
C21_TerminatorOnce ==
    pool.closed.use \in {ECHTTP_RAW_TCP, ECHTTP_RAW_APP} =>
        IF pool.closed.reason = "rejected"
        THEN Count(pool.closed.events, "terminate") = 0
        ELSE Terminated

\* C21 (amended): the same once echttp_raw_loop has set the terminator; a
\* slot closed before that is closed without any call of the terminator.
C21_TerminatorOnceSet ==
    pool.closed.use \in {ECHTTP_RAW_TCP, ECHTTP_RAW_APP} =>
        IF pool.closed.reason = "rejected" \/ ~pool.terminate
        THEN /\ Count(pool.closed.events, "terminate") = 0
             /\ pool.io[pool.closed.slot] = IoUnused
        ELSE Terminated

\* C21 witness: a TCP slot with an overflow queue and a transfer was closed
\* at the end of a response, after the terminator was set.
C21_Witness ==
    /\ pool.terminate
    /\ pool.closed.use = ECHTTP_RAW_TCP
    /\ pool.closed.reason = "end of response"
    /\ pool.closed.events[1] = "close transfer"

\* C22 (as stated, violated): the listener of an fd whose last registration
\* had the mode 0 is not called, and a call with the mode 0 for an fd that
\* is not registered creates no slot.
C22_RemovedNotCalled ==
    /\ pool.called.id >= 0 => ~pool.called.removed
    /\ (pool.op.name = "register" /\ ~pool.op.known /\ pool.result < 0)
          => \A i \in PoolSlots : pool.io[i].fd # pool.op.fd

\* The arguments echttp_raw_register may be called with.
RegisterCalls == [fd : Fds, mode : {0, 1}, listener : {0, 1, 2}, premium : {0, 1}]

\* The step is the call c of echttp_raw_register for an fd a slot holds.
ReRegistered(c) ==
    /\ pool'.op = [name |-> "register", fd |-> c.fd, known |-> TRUE]
    /\ pool' = echttp_raw_register(Calling("register", c.fd),
                                   c.fd, c.mode, c.listener, c.premium)

SlotOf(fd) == CHOOSE i \in PoolSlots : pool.io[i].fd = fd

SameSlots ==
    /\ Cardinality(InUse(pool')) = Cardinality(InUse(pool))
    /\ \A i, j \in InUse(pool') : pool'.io[i].fd = pool'.io[j].fd => i = j

\* C23 (as stated, violated): registering an fd that a slot holds writes the
\* mode, the listener and the premium flag to that slot and returns its
\* index; the number of slots in use is the same and no fd has two slots.
C23_ReRegisterUpdates ==
    [][\A c \in RegisterCalls :
          ReRegistered(c) =>
              /\ pool'.result = SlotOf(c.fd)
              /\ pool'.io[SlotOf(c.fd)].mode = c.mode
              /\ pool'.io[SlotOf(c.fd)].listener = c.listener
              /\ pool'.io[SlotOf(c.fd)].premium = c.premium
              /\ SameSlots]_vars

\* C23 (amended): for an fd held by a slot registered with
\* echttp_raw_register, a call with a listener and a mode that is not 0
\* writes the mode, the listener and the premium flag; a call with the mode
\* 0 or without a listener writes the mode 0 and leaves the listener and the
\* premium flag as they were; both return the index of the slot.  For an fd
\* held by a slot of another use the call returns -1 and changes nothing.
\* The number of slots in use is the same and no fd has two slots.
C23_ReRegisterInPlace ==
    [][\A c \in RegisterCalls :
          ReRegistered(c) =>
              LET i == SlotOf(c.fd)
                  m == IF c.listener = 0 THEN 0 ELSE c.mode
              IN  /\ SameSlots
                  /\ IF pool.io[i].use # ECHTTP_RAW_LISTEN
                     THEN pool'.result = -1 /\ pool'.io = pool.io
                     ELSE /\ pool'.result = i
                          /\ pool'.io[i].mode = m
                          /\ pool'.io[i].listener =
                                IF m # 0 THEN c.listener ELSE pool.io[i].listener
                          /\ pool'.io[i].premium =
                                IF m # 0 THEN c.premium ELSE pool.io[i].premium
                          /\ \A j \in PoolSlots \ {i} : pool'.io[j] = pool.io[j]]_vars

\* C23 witness: an fd registered with the listener 1 was registered again
\* with the listener 2 and the premium flag, in the slot it had.
C23_Witness ==
    /\ pool.op.name = "register" /\ pool.op.known /\ pool.result >= 0
    /\ pool.io[pool.result].fd = pool.op.fd
    /\ pool.io[pool.result].listener = 2
    /\ pool.io[pool.result].premium = 1
    /\ pool.io[pool.result].mode = 1

\* C24 (as stated, violated): echttp_raw_forget of an fd held by a slot that
\* only listens leaves that slot unused, whatever its index, closes nothing
\* and calls no terminator; for an fd held by a TCP or application slot it
\* changes nothing.
C24_ForgetAnySlot ==
    [][\A fd \in Fds :
          (/\ pool'.op = [name |-> "forget", fd |-> fd, known |-> TRUE]
           /\ pool' = echttp_raw_forget(Calling("forget", fd), fd))
          => /\ pool'.closed = NoClose
             /\ IF pool.io[SlotOf(fd)].use = ECHTTP_RAW_LISTEN
                THEN pool'.io = [pool.io EXCEPT ![SlotOf(fd)] = IoUnused]
                ELSE pool'.io = pool.io]_vars

\* ------------------------------------------------------------------------
\* The TLS client.

\* C25 (as stated, violated): once the request with its transfer was
\* submitted on a TLS connection and nothing is left to write, what was
\* written through TLS is what was sent followed by the announced number of
\* bytes of the file, and the file is closed.
C25_TlsTransfer ==
    LET X == echttp_tls_clients
    IN  (/\ X.phase = "submitted" /\ X.announced > 0
         /\ X.use = ECHTTP_RAW_APP /\ X.ssl /\ X.fatal = "" /\ ~X.undefined
         /\ X.pending = ECHTTP_TLS_IDLE /\ Len(X.out) = 0)
        => /\ X.wire = X.sent \o Rep(X.announced, Tok("F", 0, X.file, 0))
           /\ X.file \in X.closed

\* C26 (as stated, violated): after SSL reported a fatal error in the
\* handshake, in a write or in a read, the slot is closed with the reason
\* "TLS failure", and the response callback was called with the status 505
\* if a response was awaited.
C26_TlsFatalClosed ==
    LET X == echttp_tls_clients
    IN  (X.fatal # "" /\ X.phase # "stopped")
        => /\ X.use = ECHTTP_RAW_UNUSED
           /\ X.reason = "TLS failure"
           /\ X.awaited => X.answered = 505

\* ------------------------------------------------------------------------
\* The catalog.

\* The name with its letters in lower case.
Folded(name) ==
    [i \in 1 .. Len(name) |->
        IF name[i] \in 65 .. 90 THEN name[i] + 32 ELSE name[i]]

\* The value of the last set of the log for the name, whatever its case.
RECURSIVE LastSet(_, _)
LastSet(log, name) ==
    IF Len(log) = 0 THEN 0
    ELSE IF Folded(log[Len(log)][1]) = Folded(name) THEN log[Len(log)][2]
    ELSE LastSet(SubSeq(log, 1, Len(log) - 1), name)

\* C27: as long as no name was refused for lack of room, echttp_catalog_get
\* returns for every name the value of the last echttp_catalog_set since
\* the reset whose name is the same but for the case of its letters, and
\* nothing when there was none, so nothing at all right after a reset.
C27_CatalogLastSet ==
    ~catalog.full
    => \A name \in Names :
          echttp_catalog_get(catalog.d, name) = LastSet(catalog.log, name)

\* C27 witness: after a reset, "aa" was set, then "b@" of the same
\* signature, then "Aa" with another value, which is what "aa" now gets.
C27_Witness ==
    /\ catalog.wiped /\ ~catalog.full
    /\ Len(catalog.log) = 3
    /\ catalog.log[1] = <<(<<97, 97>>), 1>>
    /\ catalog.log[2][1] = <<98, 64>>
    /\ catalog.log[3] = <<(<<65, 97>>), 2>>
    /\ echttp_catalog_get(catalog.d, <<97, 97>>) = 2
    /\ echttp_catalog_signature(<<98, 64>>) = echttp_catalog_signature(<<97, 97>>)
    /\ catalog.d.count = 2

\* ------------------------------------------------------------------------
\* The percent codec.

\* A '%' of the text is not followed by two hexadecimal digits.
BadPercent(data) ==
    \E i \in 1 .. Len(data) :
        /\ data[i] = 37
        /\ ~ /\ i + 2 <= Len(data)
             /\ data[i + 1] \in (48 .. 57) \cup (65 .. 70) \cup (97 .. 102)
             /\ data[i + 2] \in (48 .. 57) \cup (65 .. 70) \cup (97 .. 102)

\* C28: a string of at most size / 3 - 1 bytes, none of them 0, is what
\* echttp_encoding_unescape makes of what echttp_encoding_escape made of it
\* in a buffer of that size; and echttp_encoding_unescape returns the null
\* pointer for a text where a '%' is not followed by two hexadecimal digits.
C28_EscapeRoundTrip ==
    /\ (/\ encoding.phase = "unescaped"
        /\ Len(encoding.s) <= (encoding.size \div 3) - 1)
       => encoding.back = encoding.s
    /\ (encoding.phase = "decoded" /\ BadPercent(encoding.d))
       => encoding.back = NullString

\* C28 witness: a string of 3 bytes with a '%' and a byte above 127, all
\* three escaped, came back from a buffer of 12 bytes.
C28_Witness ==
    /\ encoding.phase = "unescaped"
    /\ Len(encoding.s) = 3 /\ encoding.size = 12
    /\ 37 \in {encoding.s[i] : i \in 1 .. 3}
    /\ 200 \in {encoding.s[i] : i \in 1 .. 3}
    /\ Len(encoding.d) = 9
    /\ encoding.back = encoding.s

\* ------------------------------------------------------------------------
\* The current context.

\* C29 (as stated, violated): echttp_current is not null only while a
\* route handler, a protect callback or a response callback runs.
C29_CurrentOnlyInCallbacks ==
    callback.current # -1
    => callback.running \in {"protect", "handler", "asynchronous", "response"}

\* C29 (amended): echttp_current is not null only while a route handler, a
\* protect callback or a response callback runs, or while a client request
\* opened with echttp_client waits for its echttp_submit; when control is in
\* the reactor and no client request waits, it is null.
C29_CurrentOnlyInCallbacksOrClient ==
    callback.current # -1
    => \/ callback.running \in {"protect", "handler", "asynchronous", "response"}
       \/ callback.opens > 0

\* C29 witness: control is back in the reactor after the background
\* function opened a client request and submitted it, and no request waits.
C29_Witness ==
    /\ callback.running = "" /\ callback.returned = "background"
    /\ callback.submitted = "background"
    /\ callback.opens = 0
    /\ callback.current = -1

\* ------------------------------------------------------------------------
\* The sorted list.

\* The references of the items, by key from the key k on, and in the order
\* of the sequence for one key.
RECURSIVE ByKey(_, _)
ByKey(items, k) ==
    LET Keyed(e) == e[1] = k
        those == SelectSeq(items, Keyed)
    IN  IF k > MaxKey THEN <<>>
        ELSE [i \in 1 .. Len(those) |-> those[i][2]] \o ByKey(items, k + 1)

Backwards(s) == [i \in 1 .. Len(s) |-> s[Len(s) + 1 - i]]

\* C30: after any adds and removes, echttp_sorted_ascending visits each
\* item that the list holds once, by increasing key and, for one key, in
\* the order the items were added, and echttp_sorted_descending visits them
\* in the reverse order.
C30_SortedWalks ==
    sorted.walked
    => /\ sorted.up = ByKey(sorted.items, 0)
       /\ sorted.down = Backwards(sorted.up)

\* C30 witness: after a removal the list holds three items, the first and
\* the third added with one key, the second with a smaller key, and the
\* walk visited the second, the first, the third.
C30_Witness ==
    /\ sorted.walked /\ sorted.removed
    /\ Len(sorted.items) = 3
    /\ sorted.items[1][1] = sorted.items[3][1]
    /\ sorted.items[2][1] < sorted.items[1][1]
    /\ sorted.items[1][2] > sorted.items[3][2]
    /\ sorted.up = <<sorted.items[2][2], sorted.items[1][2], sorted.items[3][2]>>
    /\ sorted.down = <<sorted.items[3][2], sorted.items[1][2], sorted.items[2][2]>>

\* The buckets that the items need: the list itself and, at each depth
\* below, one bucket for each value of the digits of a key above that depth.
BucketsFor(items) ==
    1 + Cardinality({<<d, items[k][1] \div (SortedRadix ^ (SortedLevels - d))>> :
                        d \in 1 .. (SortedLevels - 1), k \in 1 .. Len(items)})

\* C31: echttp_sorted_audit counts the items that were added and not
\* removed, and no more buckets than these items need, so 1 bucket and 0
\* items once every item was removed; and echttp_sorted_remove of a key and
\* a reference that the list does not hold leaves the list as it was.
C31_SortedRemoveUndoes ==
    /\ [](sorted.walked
          => /\ sorted.audit.items = Len(sorted.items)
             /\ sorted.audit.buckets = BucketsFor(sorted.items)
             /\ Len(sorted.items) = 0
                   => sorted.audit = [buckets |-> 1, items |-> 0])
    /\ [][(sorted'.items = sorted.items /\ ~sorted'.walked)
             => sorted'.list = sorted.list]_vars

\* C31 witness: every item that was added was removed, and the audit of
\* the list counted the list alone.
C31_Witness ==
    /\ sorted.walked /\ sorted.removed
    /\ Len(sorted.items) = 0
    /\ sorted.audit = [buckets |-> 1, items |-> 0]

\* ------------------------------------------------------------------------
\* The index of echttp_hash.c.

\* The items 1 .. count where the action returns non zero.
HashStops == {i \in 1 .. hashed.d.count : i \in hashed.stop}

\* C32 (as stated, violated): echttp_hash_iterate with a null name calls
\* the action for the items of the index in the order of their numbers, up
\* to the first item where the action returns non zero, whose number it
\* returns, or up to the last item, and then it returns 0.
C32_IterateAll ==
    (hashed.iterated /\ hashed.name = NullUri)
    => IF HashStops = {}
       THEN /\ hashed.calls = [i \in 1 .. hashed.d.count |-> i]
            /\ hashed.result = 0
       ELSE LET first == CHOOSE i \in HashStops : \A j \in HashStops : i <= j
            IN  /\ hashed.calls = [i \in 1 .. first |-> i]
                /\ hashed.result = first

\* ------------------------------------------------------------------------
\* The output of one plain connection.

\* C33 (as stated, violated): whatever the order of the calls of echttp_raw_send and of
\* echttp_raw_transmit on one plain connection, what was written to the
\* socket is at any time the beginning of what was given to echttp_raw_send,
\* in the order of the calls, and it is all of it once nothing is left to
\* write: nothing is lost, written twice or written out of order.
C33_SendOrder ==
    /\ IsPrefix(piped.wire, piped.sent)
    /\ (piped.raw.use = ECHTTP_RAW_TCP /\ ~RawPendingOutput(piped.raw))
          => piped.wire = piped.sent

\* ------------------------------------------------------------------------
\* The content of a message.

\* The connection of slot i waits for the content of a message.
AwaitingContent(i) ==
    /\ echttp_raw_io[i].use = ECHTTP_RAW_TCP
    /\ echttp_context[i].state = ECHTTP_STATE_CONTENT

\* C34: a connection waits for content (state ECHTTP_STATE_CONTENT) only
\* with a content length above 0 that is the one of the header block decoded
\* last; for a request a route was found and the uri is the one of that
\* header block, for a response the status is one of 100 .. 599.
C34_ContentAwaited ==
    \A i \in Slots :
        AwaitingContent(i) =>
            LET ctx == echttp_context[i]
            IN  /\ ctx.contentlength > 0
                /\ ctx.in.k = "H"
                /\ ctx.in.v = ctx.contentlength
                /\ ctx.response = 0 => (ctx.route > 0 /\ ctx.route = ctx.in.x
                                        /\ ctx.uri # 0 /\ ctx.uri = ctx.in.r)
                /\ ctx.response # 0 => (ctx.status >= 100 /\ ctx.status < 600)

\* C34 witness: a request whose route was found waits for its content.
C34_Witness ==
    \E i \in Slots :
        /\ AwaitingContent(i)
        /\ echttp_context[i].response = 0
        /\ echttp_context[i].route > 0
        /\ echttp_context[i].contentlength > 0

\* ------------------------------------------------------------------------
\* The content received through an incoming transfer.

\* The content units written to the file so far are the ones that followed
\* the units given to the asynchronous callback, in order.
StoredInOrder ==
    incoming.S.gh.stored =
        [n \in 1 .. Len(incoming.S.gh.stored) |-> ContentUnit(incoming.given + n)]

HandlerCalls == Cardinality(Positions(incoming.S.gh.calls, "handler"))

\* The last call of echttp_received wrote the end of the content: the file
\* was closed, once; the request was executed, once, and the connection
\* waits for the next request, or the response callback was called, once,
\* and the connection closed.
TransferCompleted ==
    /\ incoming.S.gh.closed = <<IncomingFd>>
    /\ incoming.S.ctx.transfer = NoContextTransfer
    /\ Len(incoming.S.gh.stored) = incoming.total - incoming.given
    /\ StoredInOrder
    /\ incoming.side = "server"
          => /\ incoming.S.ctx.state = ECHTTP_STATE_IDLE
             /\ incoming.S.raw.fd >= 0
             /\ HandlerCalls = 1
    /\ incoming.side = "client"
          => /\ incoming.S.raw.fd < 0
             /\ incoming.S.gh.reason = "end of response"
             /\ Len(incoming.S.gh.answers) = 1

\* C35 (as stated, violated): a call of echttp_received that finds the
\* connection waiting for content with an incoming transfer asks write() to
\* take the smaller of the size left to transfer and the units buffered; it
\* sets the state ECHTTP_STATE_ERROR when write() takes less than that; when
\* nothing is left to transfer the file is closed and the request executed
\* once (server) or the response callback called and the slot closed
\* (client).
C35_IncomingTransfer ==
    incoming.last.called =>
        /\ incoming.last.want = Min(incoming.last.left, incoming.last.buffered)
        /\ incoming.last.size < incoming.last.want
              => incoming.S.ctx.state = ECHTTP_STATE_ERROR
        /\ incoming.last.size = incoming.last.left => TransferCompleted

\* C35 (amended): the same, where the state ECHTTP_STATE_ERROR is set, and
\* the file closed, when write() returns 0 or less; when write() takes some
\* of what it was asked, these units are written and consumed, the rest
\* stays buffered and the transfer goes on.
C35_IncomingTransferFailed ==
    /\ HandlerCalls <= 1
    /\ incoming.S.ctx.state = ECHTTP_STATE_CONTENT => HandlerCalls = 0
    /\ incoming.last.called =>
        /\ incoming.last.want = Min(incoming.last.left, incoming.last.buffered)
        /\ incoming.last.size <= 0
              <=> incoming.S.ctx.state = ECHTTP_STATE_ERROR
        /\ incoming.last.size <= 0
              => /\ incoming.S.gh.closed = <<IncomingFd>>
                 /\ incoming.S.ctx.transfer = NoContextTransfer
        /\ (incoming.last.size > 0 /\ incoming.last.size < incoming.last.left)
              => /\ incoming.S.ctx.state = ECHTTP_STATE_CONTENT
                 /\ incoming.S.ctx.transfer.state = ECHTTP_TRANSFER_IN
                 /\ incoming.S.ctx.transfer.size =
                        incoming.last.left - incoming.last.size
                 /\ incoming.S.gh.closed = <<>>
                 /\ StoredInOrder
                 /\ Len(incoming.S.raw.in.data) =
                        incoming.last.buffered - incoming.last.size
        /\ incoming.last.size = incoming.last.left => TransferCompleted

\* C35 witness: the content of a request was written in more than one call,
\* one write() took less than asked, and the request was executed.
C35_Witness ==
    /\ incoming.side = "server"
    /\ incoming.partial
    /\ incoming.last.called
    /\ incoming.last.size = incoming.last.left
    /\ TransferCompleted

\* ------------------------------------------------------------------------
\* The files given to echttp_transfer.

\* The files that the connection of slot i still holds: the transfer of its
\* context, and the transfer of its echttp_raw_io entry.
TransferHeld(i) ==
    (IF /\ echttp_raw_io[i].fd >= 0
        /\ echttp_context[i].transfer.state # ECHTTP_TRANSFER_IDLE
        /\ echttp_context[i].transfer.fd >= 0
     THEN {echttp_context[i].transfer.fd} ELSE {})
    \cup (IF echttp_raw_io[i].fd >= 0 /\ echttp_raw_io[i].transfer.size > 0
          THEN {echttp_raw_io[i].transfer.fd} ELSE {})

TransferClosed(i) == {ghost[i].closed[k] : k \in 1 .. Len(ghost[i].closed)}

\* C36 (as stated, violated): no file is closed twice, only files that
\* echttp_transfer took are closed, and every file that echttp_transfer took
\* is closed unless an open connection still holds it: none is left open
\* once its transfer is done, cancelled or replaced, or once the connection
\* is closed.
C36_TransferClosedOnce ==
    \A i \in Slots :
        /\ \A j, k \in 1 .. Len(ghost[i].closed) :
              ghost[i].closed[j] = ghost[i].closed[k] => j = k
        /\ \A k \in 1 .. Len(ghost[i].closed) :
              \E j \in 1 .. Len(ghost[i].handed) :
                  ghost[i].handed[j] = ghost[i].closed[k]
        /\ \A k \in 1 .. Len(ghost[i].handed) :
              ghost[i].handed[k] \in TransferHeld(i) \cup TransferClosed(i)

\* ------------------------------------------------------------------------
\* The slot of a TLS client.

\* C37 (as stated, violated): when echttp_client is called for an https URL
\* and echttp_tls_attach returns 0, the slot of the new client is watched for
\* reading only (mode 1) and the mode of no other slot has changed.
C37_ClientReadOnly ==
    [][\A s \in Fresh, luck \in BOOLEAN :
          (/\ pool'.op.name = "client"
           /\ pool' = PoolClient(Calling("client", s), s, TRUE, 0, luck)
           /\ pool'.result >= 0)
          => /\ pool'.io[pool'.result].fd = s
             /\ pool'.io[pool'.result].mode = 1
             /\ \A i \in PoolSlots \ {pool'.result} :
                   pool'.io[i].mode = pool.io[i].mode]_vars

\* ------------------------------------------------------------------------
\* The input consumed for a content in chunks.

\* C38 (as stated, violated): once a request with a content in chunks was
\* executed, what is reported as consumed after the header block is all that
\* the peer sent after it: the chunks, the chunk of size zero and the empty
\* line that ends the message; nothing of this message is left in the
\* buffer before the next request.
C38_ConsumedAll ==
    chunked.fate = "execute" =>
        /\ chunked.left = <<>>
        /\ \E wide \in BOOLEAN :
              chunked.consumed = Len(ChunkedContent(chunked.chunks, wide))

\* ------------------------------------------------------------------------
\* The responses to one request.

\* The status lines sent on the connection of slot i for the request r.
StatusLines(i, r) == SelectSeq(ghost[i].lines, LAMBDA u : u.r = r)

\* C39 (as stated, violated): on a connection accepted from a peer no more
\* than one status line is sent for a request, whether the request was
\* executed, refused by a protect callback or answered by its asynchronous
\* callback before its content was complete.
C39_OneResponse ==
    \A i \in Slots : \A r \in 1 .. MaxRequests :
        ghost[i].submitted \/ Len(StatusLines(i, r)) <= 1

\* ------------------------------------------------------------------------
\* The input buffer of a TLS client.

\* C40 (as stated, violated): the input buffer of an attached TLS client
\* holds, between start and end, the bytes SSL_read returned and the
\* receiver did not consume, in the order of their arrival, and this is what
\* the receiver is given: bytes read while others wait are put after them.
C40_TlsInputInOrder ==
    registered.open =>
        /\ TlsPending(registered.in) = registered.expect
        /\ registered.shown = registered.due

====
